---- MODULE Spec2Model ----
(***************************************************************************)
(* Verification model of the UPL registry (gardenzilla/upl_microservice). *)
(*                                                                         *)
(* Eight specifications share this module:                                 *)
(*   SpecUpl  - the state machine of one Upl object (src/src/upl.rs): lock, *)
(*              unlock and move_upl applied, with inputs from small sets,   *)
(*              to an object built by Upl::new.                             *)
(*   SpecKind - the same object under the methods that change its kind and  *)
(*              its prices: split, split_bulk, open, close, divide, merge   *)
(*              set_price and the depreciation methods, with the objects    *)
(*              split and divide return.                                    *)
(*   Spec     - the service (src/src/main.rs): the two VecPack collections  *)
(*              behind their Mutexes and the requests that create, lock and *)
(*              archive.  Every statement that takes a Mutex guard is one   *)
(*              atomic step; a request made of several such statements is   *)
(*              several steps, and other requests may run between them.     *)
(*   SpecOps  - the service under the requests that change kinds and        *)
(*              prices: Split, Divide, MergeBack, OpenUpl, CloseUpl,        *)
(*              SetSkuPrice, with LockToCart and CloseCart.                 *)
(*   SpecBulk - the service under CreateNewBulk, a request of one step per  *)
(*              item of its stream, beside CreateNew and GetById.           *)
(*   SpecGuard- LockToCart, ReleaseLockFromCart and GetById with the Mutex  *)
(*              guard and the two writes of lock and unlock as steps.       *)
(*   SpecLive - the requests of several statements with each guard taken    *)
(*              and dropped as a step of its own, under fair scheduling.    *)
(*   SpecId   - the id generators (src/src/id.rs, src/src/bin/luhn.rs)      *)
(*              applied to the base numbers.                                *)
(*                                                                         *)
(* Timestamps (created_at, the created_at of a history item) come from     *)
(* Utc::now() and are not part of the model.  UPL ids are decimal strings  *)
(* in the source; they are modelled by the number they spell.              *)
(***************************************************************************)
EXTENDS Integers, Sequences, FiniteSets, TLC

\* ------------------------------------------------------------------------
\* Bounds of the model
\* ------------------------------------------------------------------------
\* SpecUpl: no method is applied once the history holds this many items
MaxHist == 4
\* Spec: number of requests accepted in one behaviour
MaxReq == 4
\* SpecKind: number of calls of the methods that change kind or prices
MaxCalls == 3
\* SpecBulk: number of items of an incoming stream
MaxStream == 2
\* SpecBulk, SpecLive: number of requests accepted in one behaviour
MaxBulk == 2
\* SpecId: ids are generated from the base numbers 0 .. MaxBase - 1
MaxBase == 100000
\* SpecId: the first MaxUnique ids are compared with each other
MaxUnique == 50000

\* ------------------------------------------------------------------------
\* Value types (src/src/upl.rs)
\* ------------------------------------------------------------------------
Lock_None == [tag |-> "None", cart |-> "", n |-> 0]
Lock_Cart(c) == [tag |-> "Cart", cart |-> c, n |-> 0]
Lock_Delivery(d) == [tag |-> "Delivery", cart |-> "", n |-> d]
Lock_Inventory(i) == [tag |-> "Inventory", cart |-> "", n |-> i]

Location_Stock(s) == [tag |-> "Stock", cart |-> "", n |-> s]
Location_Delivery(d) == [tag |-> "Delivery", cart |-> "", n |-> d]
Location_Cart(c) == [tag |-> "Cart", cart |-> c, n |-> 0]
Location_Discard(d) == [tag |-> "Discard", cart |-> "", n |-> d]

Kind_Sku(sku) ==
  [tag |-> "Sku", sku |-> sku, upl_pieces |-> 0, amount |-> 0,
   successors |-> <<>>, derived_from |-> 0]
Kind_BulkSku(sku, upl_pieces) ==
  [tag |-> "BulkSku", sku |-> sku, upl_pieces |-> upl_pieces, amount |-> 0,
   successors |-> <<>>, derived_from |-> 0]
Kind_OpenedSku(sku, amount, successors) ==
  [tag |-> "OpenedSku", sku |-> sku, upl_pieces |-> 0, amount |-> amount,
   successors |-> successors, derived_from |-> 0]
\* the sku field of a DerivedProduct is derived_from_sku
Kind_DerivedProduct(derived_from, derived_from_sku, amount) ==
  [tag |-> "DerivedProduct", sku |-> derived_from_sku, upl_pieces |-> 0,
   amount |-> amount, successors |-> <<>>, derived_from |-> derived_from]

CreatedBy_Uid(uid) == [tag |-> "Uid", uid |-> uid]
CreatedBy_Technical == [tag |-> "Technical", uid |-> 0]

\* UplHistoryItem::new (created_at left out)
UplHistoryItem_new(created_by, event) == [event |-> event, created_by |-> created_by]

Event_Created == [event |-> "Created"]
Event_Moved(from, to) == [event |-> "Moved", from |-> from, to |-> to]
Event_Locked(to) == [event |-> "Locked", to |-> to]
Event_Unlocked == [event |-> "Unlocked"]
Event_Split(new_upl_id) == [event |-> "Split", new_upl_id |-> new_upl_id]
Event_SetDeprecated(depreciation_id, comment) == [event |-> "SetDeprecated", depreciation_id |-> depreciation_id, comment |-> comment]
Event_DeprecationRemoved == [event |-> "DeprecationRemoved"]
Event_SetDepreciatedPrice(retail_net_price) == [event |-> "SetDepreciatedPrice", retail_net_price |-> retail_net_price]

\* Depreciation::new; the two Options are sequences
Depreciation_new(depreciation_id, comment) ==
  [depreciation_id |-> depreciation_id, net_retail_price |-> <<>>,
   margin_net |-> <<>>, comment |-> comment]

\* VAT::from_str: the VAT variant named by a string, "" when there is none
VAT_from_str(str) ==
  CASE str = "AAM" -> "AAM"
    [] str = "aam" -> "AAM"
    [] str = "FAD" -> "FAD"
    [] str = "fad" -> "FAD"
    [] str = "TAM" -> "TAM"
    [] str = "tam" -> "TAM"
    [] str = "5" -> "_5"
    [] str = "18" -> "_18"
    [] str = "27" -> "_27"
    [] OTHER -> ""

\* the largest power of two that is at most k (1 for k < 2): the binade of
\* the f32 value k + 0.5
RECURSIVE F32_binade(_)
F32_binade(k) == IF k < 2 THEN 1 ELSE 2 * F32_binade(k \div 2)

\* impl Mul<VAT> for u32: (self as f32 * rate).round() as u32.  The f32
\* rates lie below their decimals (1.05f32 = 1.05 - 40/(100 * 2^23), 1.18f32
\* = 1.18 - 44/(100 * 2^23), 1.27f32 = 1.27 - 16/(100 * 2^23), 1.0 is exact),
\* so the product differs from x * pct / 100 only where that is k + 0.5: the
\* f32 product is k + 0.5 (and round() gives k + 1) when the shortfall
\* x * delta / (100 * 2^23) is at most half an ulp, 2^-24 times the binade,
\* and is below it (round() gives k) otherwise.  Exact for x < 200000.
Mul_VAT(x, vat) ==
  LET pct == CASE vat = "_5" -> 105
               [] vat = "_18" -> 118
               [] vat = "_27" -> 127
               [] OTHER -> 100
      delta == CASE vat = "_5" -> 40
                 [] vat = "_18" -> 44
                 [] vat = "_27" -> 16
                 [] OTHER -> 0
      k == (x * pct) \div 100
  IN IF (x * pct) % 100 = 50 /\ x * delta > 50 * F32_binade(k)
       THEN k
       ELSE (x * pct + 50) \div 100

\* ------------------------------------------------------------------------
\* UplId validation (src/src/id.rs)
\* ------------------------------------------------------------------------
RECURSIVE Digits(_)
\* n.to_string().chars() as digits
Digits(n) == IF n < 10 THEN <<n>> ELSE Append(Digits(n \div 10), n % 10)

RECURSIVE WeightedSum(_, _)
\* the fold over the reversed vector: the k-th digit from the right weighs k
WeightedSum(n, k) ==
  IF k > Len(n) THEN 0 ELSE n[Len(n) + 1 - k] * k + WeightedSum(n, k + 1)

calculate_check_from_vec(n) ==
  LET remainder == 10 - (WeightedSum(n, 1) % 10)
  IN IF remainder = 10 THEN <<9, 0>> ELSE <<10 - remainder, remainder>>

is_valid(n) ==
  LET num_vec == Digits(n)
  IN /\ Len(num_vec) >= 2
     /\ calculate_check_from_vec(SubSeq(num_vec, 2, Len(num_vec) - 1))
          = <<num_vec[1], num_vec[Len(num_vec)]>>

calculate_check(n) == calculate_check_from_vec(Digits(n))

RECURSIVE Pow10(_)
Pow10(k) == IF k = 0 THEN 1 ELSE 10 * Pow10(k - 1)

\* UplId::new with the two check digits changing places
UplId_new_swapped(n) ==
  LET check == calculate_check(n)
  IN check[2] * Pow10(Len(Digits(n)) + 1) + n * 10 + check[1]

\* UplId::new: the number spelled by the first check digit, the digits of n
\* and the last check digit.  It has at most 8 digits for n < 10^6, so that
\* the parse into u32 succeeds.
UplId_new(n) ==
  LET check == calculate_check(n)
  IN check[1] * Pow10(Len(Digits(n)) + 1) + n * 10 + check[2]

\* ------------------------------------------------------------------------
\* The Luhn tool (src/src/bin/luhn.rs)
\* ------------------------------------------------------------------------
RECURSIVE calc(_, _)
calc(n, i) ==
  LET digit == n % 10
      res == IF i % 2 = 0 THEN digit
             ELSE IF digit * 2 > 9 THEN digit * 2 - 9 ELSE digit * 2
      left == n \div 10
  IN IF left > 0 THEN calc(left, i + 1) + res ELSE res

calc_check(u) ==
  LET x == 10 - (calc(u, 1) % 10)
  IN IF x # 10 THEN x ELSE 0

\* make_id without the base number
make_id_checks_only(u) == calc_check(u) * 10 + (9 - calc_check(u))

make_id(u) == (u * 10 + calc_check(u)) * 10 + (9 - calc_check(u))

\* is_valid of the Luhn tool
luhn_is_valid(n) ==
  LET check == calc_check(n \div 100)
  IN (n % 10) = 9 - check /\ (n % 100) \div 10 = check

\* ------------------------------------------------------------------------
\* Upl (src/src/upl.rs)
\* ------------------------------------------------------------------------
\* (q as f32 * (p as f32 / d as f32)).round() as u32, for d > 0 (the inputs
\* of the model keep sku_divisible_amount >= 1, so the float division by
\* zero of d = 0 is outside the model).  The f32 result equals this rounded
\* quotient for 1 <= d <= 13, q <= d and p < 20000, the range of the model.
AmountPrice(q, p, d) == (2 * q * p + d) \div (2 * d)

\* set_history keeping the last event only
set_history_forgets(self, event) == [self EXCEPT !.history = <<event>>]

set_history(self, event) == [self EXCEPT !.history = Append(@, event)]

recalculate_prices(self) ==
  LET k == self.kind
      priced ==
        IF k.tag \in {"Sku", "BulkSku"}
          THEN [self EXCEPT !.price_net = self.sku_price_net,
                            !.price_gross = Mul_VAT(self.sku_price_net, self.vat)]
          ELSE LET pn == AmountPrice(k.amount, self.sku_price_net,
                                     self.sku_divisible_amount)
               IN [self EXCEPT
                     !.price_net = pn,
                     !.price_gross = Mul_VAT(pn, self.vat),
                     !.procurement_net_price =
                        AmountPrice(k.amount, self.procurement_net_price_sku,
                                    self.sku_divisible_amount)]
  \* a u32 subtraction: a negative difference here stands for the underflow
  \* (a panic in a debug build, 2^32 + difference in a release build)
  IN [priced EXCEPT
        !.margin_net = priced.price_net - priced.procurement_net_price]

\* Upl::new: [ok, upl]; ok is FALSE when the id is not valid
Upl_new(upl_id, product_id, product_unit, sku, piece, sku_divisible_amount, sku_divisible, sku_price_net, sku_vat, procurement_id, procurement_net_price_sku, location, best_before, is_opened, created_by) ==
  LET upl ==
        [id |-> upl_id,
         product_id |-> product_id,
         kind |-> IF is_opened THEN Kind_OpenedSku(sku, piece, <<>>)
                  ELSE IF piece > 1 THEN Kind_BulkSku(sku, piece)
                  ELSE Kind_Sku(sku),
         product_unit |-> product_unit,
         procurement_id |-> procurement_id,
         procurement_net_price |-> 0,
         procurement_net_price_sku |-> procurement_net_price_sku,
         location |-> location,
         depreciation |-> <<>>,
         best_before |-> best_before,
         lock |-> Lock_None,
         history |-> <<UplHistoryItem_new(CreatedBy_Uid(created_by), Event_Created)>>,
         created_by |-> created_by,
         sku_divisible_amount |-> sku_divisible_amount,
         margin_net |-> 0,
         sku_divisible |-> sku_divisible,
         sku_price_net |-> sku_price_net,
         price_net |-> 0,
         vat |-> sku_vat,
         price_gross |-> 0]
  IN [ok |-> is_valid(upl_id), upl |-> recalculate_prices(upl)]

\* Lock::is_none
Lock_is_none(lock) == IF lock = Lock_None THEN TRUE ELSE TRUE

get_lock(self) == self.lock

has_lock(self) == self.lock # Lock_None

can_lock(self) == Lock_is_none(get_lock(self))

\* can_move with a cart lock opening every cart
can_move_any_cart(self, to) ==
  CASE to.tag = "Stock" -> self.lock.tag = "None"
    [] to.tag = "Delivery" ->
         CASE self.lock.tag = "Delivery" -> to.n = self.lock.n
           [] self.lock.tag = "None" -> TRUE
           [] OTHER -> FALSE
    [] to.tag = "Cart" -> self.lock.tag \in {"Cart", "None"}
    [] to.tag = "Discard" -> self.lock.tag = "Inventory"

can_move(self, to) ==
  CASE to.tag = "Stock" -> self.lock.tag = "None"
    [] to.tag = "Delivery" ->
         CASE self.lock.tag = "Delivery" -> to.n = self.lock.n
           [] self.lock.tag = "None" -> TRUE
           [] OTHER -> FALSE
    [] to.tag = "Cart" ->
         CASE self.lock.tag = "Cart" -> to.cart = self.lock.cart
           [] self.lock.tag = "None" -> TRUE
           [] OTHER -> FALSE
    [] to.tag = "Discard" -> self.lock.tag = "Inventory"

unlock_forced(self) ==
  set_history([self EXCEPT !.lock = Lock_None],
              UplHistoryItem_new(CreatedBy_Technical, Event_Unlocked))

\* the methods returning Result<&Self, String>: [ok, upl], upl the object
\* after the call
\* move_upl without the unlock_forced that ends it
move_upl_keeps_lock(self, to, created_by) ==
  IF ~can_move(self, to)
    THEN [ok |-> FALSE, upl |-> self]
    ELSE [ok |-> TRUE,
          upl |-> set_history([self EXCEPT !.location = to],
                    UplHistoryItem_new(CreatedBy_Uid(created_by),
                                       Event_Moved(self.location, to)))]

move_upl(self, to, created_by) ==
  IF ~can_move(self, to)
    THEN [ok |-> FALSE, upl |-> self]
    ELSE LET from == self.location
             moved == set_history([self EXCEPT !.location = to],
                        UplHistoryItem_new(CreatedBy_Uid(created_by),
                                           Event_Moved(from, to)))
         IN [ok |-> TRUE, upl |-> unlock_forced(moved)]

lock(self, l, created_by) ==
  IF ~can_lock(self)
    THEN [ok |-> FALSE, upl |-> self]
    ELSE [ok |-> TRUE,
          upl |-> set_history([self EXCEPT !.lock = l],
                    UplHistoryItem_new(CreatedBy_Uid(created_by), Event_Locked(l)))]

\* unlock comparing the kind of lock only, not the id it carries
unlock_by_kind(self, l, created_by) ==
  IF self.lock.tag = l.tag
    THEN [ok |-> TRUE,
          upl |-> set_history([self EXCEPT !.lock = Lock_None],
                    UplHistoryItem_new(CreatedBy_Uid(created_by), Event_Unlocked))]
    ELSE [ok |-> FALSE, upl |-> self]

unlock(self, l, created_by) ==
  IF self.lock = l
    THEN [ok |-> TRUE,
          upl |-> set_history([self EXCEPT !.lock = Lock_None],
                    UplHistoryItem_new(CreatedBy_Uid(created_by), Event_Unlocked))]
    ELSE [ok |-> FALSE, upl |-> self]

get_sku(self) == self.kind.sku

get_upl_piece(self) ==
  IF self.kind.tag = "BulkSku" THEN self.kind.upl_pieces ELSE 1

\* Option values are sequences: <<>> is None, <<x>> is Some(x)
get_upl_special_price_net(self) ==
  IF self.depreciation = <<>> THEN <<>> ELSE self.depreciation[1].net_retail_price

get_upl_special_price_margin(self) ==
  IF self.depreciation = <<>> THEN <<>> ELSE self.depreciation[1].margin_net

get_upl_has_special_price(self) == get_upl_special_price_net(self) # <<>>

is_depreciated(self) == self.depreciation # <<>>

set_depreciation(self, depreciation_id, comment, created_by) ==
  IF self.depreciation # <<>> THEN [ok |-> FALSE, upl |-> self]
  ELSE [ok |-> TRUE,
        upl |-> set_history(
                  [self EXCEPT !.depreciation =
                     <<Depreciation_new(depreciation_id, comment)>>],
                  UplHistoryItem_new(CreatedBy_Uid(created_by),
                                     Event_SetDeprecated(depreciation_id, comment)))]

\* set_depreciation_price: net_retail_price is an Option.  The margin is a
\* u32 subtraction: as in recalculate_prices, a negative difference here
\* stands for the underflow (a panic in a debug build, 2^32 + difference in
\* a release build)
set_depreciation_price(self, net_retail_price, created_by) ==
  IF self.depreciation = <<>> THEN [ok |-> FALSE, upl |-> self]
  ELSE LET margin == IF net_retail_price = <<>> THEN <<>>
                     ELSE <<net_retail_price[1] - self.procurement_net_price>>
       IN [ok |-> TRUE,
           upl |-> set_history(
                     [self EXCEPT !.depreciation[1].net_retail_price = net_retail_price,
                                  !.depreciation[1].margin_net = margin],
                     UplHistoryItem_new(CreatedBy_Uid(created_by),
                                        Event_SetDepreciatedPrice(net_retail_price)))]

remove_deprecation(self, created_by) ==
  IF self.depreciation = <<>> THEN [ok |-> FALSE, upl |-> self]
  ELSE [ok |-> TRUE,
        upl |-> set_history([self EXCEPT !.depreciation = <<>>],
                            UplHistoryItem_new(CreatedBy_Uid(created_by),
                                               Event_DeprecationRemoved))]

is_divisible(self) ==
  CASE self.kind.tag = "Sku" -> self.sku_divisible_amount > 1 /\ self.sku_divisible
    [] self.kind.tag = "BulkSku" -> FALSE
    [] self.kind.tag = "OpenedSku" -> self.kind.amount > 1
    [] self.kind.tag = "DerivedProduct" -> FALSE

get_divisible_amount(self) ==
  CASE self.kind.tag = "Sku" -> <<self.sku_divisible_amount>>
    [] self.kind.tag = "BulkSku" -> <<>>
    [] self.kind.tag = "OpenedSku" -> <<self.kind.amount>>
    [] self.kind.tag = "DerivedProduct" -> <<>>

\* the methods returning Result<Upl, String>: [ok, upl, new], upl the object
\* after the call, new the Upl returned (an Option)
Refused(self) == [ok |-> FALSE, upl |-> self, new |-> <<>>]

\* split leaving the pieces of the parent as they were
split_keeps_pieces(self, new_upl_id, piece, created_by) ==
  IF piece = 0 \/ has_lock(self) \/ ~is_valid(new_upl_id) THEN Refused(self)
  ELSE IF self.kind.tag # "BulkSku" \/ ~(self.kind.upl_pieces > piece)
    THEN Refused(self)
  ELSE LET new_upl ==
             [self EXCEPT !.kind = IF piece = 1
                                     THEN Kind_Sku(self.kind.sku)
                                     ELSE Kind_BulkSku(self.kind.sku, piece)]
           parent == set_history(self,
                       UplHistoryItem_new(CreatedBy_Uid(created_by),
                                          Event_Split(new_upl_id)))
       IN [ok |-> TRUE, upl |-> recalculate_prices(parent),
           new |-> <<recalculate_prices(new_upl)>>]

\* split without the test of the lock
split_ignores_lock(self, new_upl_id, piece, created_by) ==
  IF piece = 0 \/ ~is_valid(new_upl_id) THEN Refused(self)
  ELSE IF self.kind.tag # "BulkSku" \/ ~(self.kind.upl_pieces > piece)
    THEN Refused(self)
  ELSE LET less == [self EXCEPT !.kind.upl_pieces = @ - piece]
           new_upl ==
             [less EXCEPT !.kind = IF piece = 1
                                     THEN Kind_Sku(self.kind.sku)
                                     ELSE Kind_BulkSku(self.kind.sku, piece)]
           parent == set_history(less,
                       UplHistoryItem_new(CreatedBy_Uid(created_by),
                                          Event_Split(new_upl_id)))
       IN [ok |-> TRUE, upl |-> recalculate_prices(parent),
           new |-> <<recalculate_prices(new_upl)>>]

\* split: the child is the clone of the parent taken after the pieces were
\* taken off and before the Split event is recorded; nothing gives the clone
\* the id new_upl_id
split(self, new_upl_id, piece, created_by) ==
  IF piece = 0 \/ has_lock(self) \/ ~is_valid(new_upl_id) THEN Refused(self)
  ELSE IF self.kind.tag # "BulkSku" \/ ~(self.kind.upl_pieces > piece)
    THEN Refused(self)
  ELSE LET less == [self EXCEPT !.kind.upl_pieces = @ - piece]
           new_upl ==
             [less EXCEPT !.kind = IF piece = 1
                                     THEN Kind_Sku(self.kind.sku)
                                     ELSE Kind_BulkSku(self.kind.sku, piece)]
           parent == set_history(less,
                       UplHistoryItem_new(CreatedBy_Uid(created_by),
                                          Event_Split(new_upl_id)))
       IN [ok |-> TRUE, upl |-> recalculate_prices(parent),
           new |-> <<recalculate_prices(new_upl)>>]

RECURSIVE split_each(_, _, _)
\* the for_each of split_bulk: [upl, result], a split that fails is skipped
split_each(self, new_upl_ids, created_by) ==
  IF new_upl_ids = <<>> THEN [upl |-> self, result |-> <<>>]
  ELSE LET r == split(self, Head(new_upl_ids), 1, created_by)
           rest == split_each(r.upl, Tail(new_upl_ids), created_by)
       IN [upl |-> rest.upl, result |-> r.new \o rest.result]

\* split_bulk without the test of the number of pieces
split_bulk_any_count(self, new_upl_ids, created_by) ==
  IF \E i \in DOMAIN new_upl_ids : ~is_valid(new_upl_ids[i])
    THEN [ok |-> FALSE, upl |-> self, result |-> <<>>]
  ELSE IF has_lock(self) THEN [ok |-> FALSE, upl |-> self, result |-> <<>>]
  ELSE IF self.kind.tag # "BulkSku" THEN [ok |-> FALSE, upl |-> self, result |-> <<>>]
  ELSE LET r == split_each(self, new_upl_ids, created_by)
       IN [ok |-> TRUE, upl |-> r.upl, result |-> r.result]

\* split_bulk: [ok, upl, result], result the Vec<Upl> returned
split_bulk(self, new_upl_ids, created_by) ==
  IF \E i \in DOMAIN new_upl_ids : ~is_valid(new_upl_ids[i])
    THEN [ok |-> FALSE, upl |-> self, result |-> <<>>]
  ELSE IF has_lock(self) THEN [ok |-> FALSE, upl |-> self, result |-> <<>>]
  ELSE IF self.kind.tag # "BulkSku" THEN [ok |-> FALSE, upl |-> self, result |-> <<>>]
  ELSE IF self.kind.upl_pieces <= Len(new_upl_ids)
    THEN [ok |-> FALSE, upl |-> self, result |-> <<>>]
  ELSE LET r == split_each(self, new_upl_ids, created_by)
       IN [ok |-> TRUE, upl |-> r.upl, result |-> r.result]

\* open without the test of the lock
open_ignores_lock(self) ==
  IF ~is_divisible(self) THEN [ok |-> FALSE, upl |-> self]
  ELSE IF get_divisible_amount(self) = <<>> THEN [ok |-> FALSE, upl |-> self]
  ELSE IF self.kind.tag = "Sku"
    THEN [ok |-> TRUE,
          upl |-> [self EXCEPT !.kind =
                     Kind_OpenedSku(self.kind.sku, self.sku_divisible_amount, <<>>)]]
  ELSE [ok |-> FALSE, upl |-> self]

open(self) ==
  IF ~is_divisible(self) THEN [ok |-> FALSE, upl |-> self]
  ELSE IF has_lock(self) THEN [ok |-> FALSE, upl |-> self]
  ELSE IF get_divisible_amount(self) = <<>> THEN [ok |-> FALSE, upl |-> self]
  ELSE IF self.kind.tag = "Sku"
    THEN [ok |-> TRUE,
          upl |-> [self EXCEPT !.kind =
                     Kind_OpenedSku(self.kind.sku, self.sku_divisible_amount, <<>>)]]
  ELSE [ok |-> FALSE, upl |-> self]

\* close without the test of the amount left
close_ignores_amount(self) ==
  IF has_lock(self) THEN [ok |-> FALSE, upl |-> self]
  ELSE IF self.kind.tag # "OpenedSku" THEN [ok |-> FALSE, upl |-> self]
  ELSE [ok |-> TRUE, upl |-> [self EXCEPT !.kind = Kind_Sku(self.kind.sku)]]

close(self) ==
  IF has_lock(self) THEN [ok |-> FALSE, upl |-> self]
  ELSE IF self.kind.tag # "OpenedSku" THEN [ok |-> FALSE, upl |-> self]
  ELSE IF self.kind.amount # self.sku_divisible_amount THEN [ok |-> FALSE, upl |-> self]
  ELSE [ok |-> TRUE, upl |-> [self EXCEPT !.kind = Kind_Sku(self.kind.sku)]]

\* divide leaving the child the created_by of the parent
divide_keeps_creator(self, new_upl_id, requested_amount, created_by) ==
  IF requested_amount = 0 \/ has_lock(self) \/ ~is_valid(new_upl_id)
    THEN Refused(self)
  ELSE IF self.kind.tag # "OpenedSku" THEN Refused(self)
  ELSE IF self.kind.amount <= requested_amount THEN Refused(self)
  ELSE LET parent == [self EXCEPT !.kind.amount = @ - requested_amount,
                                  !.kind.successors = Append(@, new_upl_id)]
           new_upl == [parent EXCEPT
                         !.id = new_upl_id,
                         !.kind = Kind_DerivedProduct(self.id, get_sku(parent),
                                                      requested_amount)]
       IN [ok |-> TRUE, upl |-> recalculate_prices(parent),
           new |-> <<recalculate_prices(new_upl)>>]

\* divide: the child is the clone of the parent taken after the amount was
\* taken off and the successor recorded; created_at is left out
divide(self, new_upl_id, requested_amount, created_by) ==
  IF requested_amount = 0 \/ has_lock(self) \/ ~is_valid(new_upl_id)
    THEN Refused(self)
  ELSE IF self.kind.tag # "OpenedSku" THEN Refused(self)
  ELSE IF self.kind.amount <= requested_amount THEN Refused(self)
  ELSE LET parent == [self EXCEPT !.kind.amount = @ - requested_amount,
                                  !.kind.successors = Append(@, new_upl_id)]
           new_upl == [parent EXCEPT
                         !.id = new_upl_id,
                         !.created_by = created_by,
                         !.kind = Kind_DerivedProduct(self.id, get_sku(parent),
                                                      requested_amount)]
       IN [ok |-> TRUE, upl |-> recalculate_prices(parent),
           new |-> <<recalculate_prices(new_upl)>>]

merge(self, upl_to_merge, by) ==
  IF is_depreciated(self) THEN [ok |-> FALSE, upl |-> self]
  ELSE IF has_lock(self) THEN [ok |-> FALSE, upl |-> self]
  ELSE IF has_lock(upl_to_merge) THEN [ok |-> FALSE, upl |-> self]
  ELSE IF self.kind.tag # "OpenedSku" THEN [ok |-> FALSE, upl |-> self]
  ELSE IF upl_to_merge.kind.tag # "DerivedProduct" THEN [ok |-> FALSE, upl |-> self]
  ELSE IF self.id # upl_to_merge.kind.derived_from THEN [ok |-> FALSE, upl |-> self]
  ELSE [ok |-> TRUE,
        upl |-> recalculate_prices(
                  [self EXCEPT !.kind.amount = @ + upl_to_merge.kind.amount])]

set_price(self, sku_net_price, sku_vat) ==
  [ok |-> TRUE,
   upl |-> recalculate_prices([self EXCEPT !.sku_price_net = sku_net_price,
                                           !.vat = sku_vat])]

set_divisible(self, divisible) == [self EXCEPT !.sku_divisible = divisible]

\* ------------------------------------------------------------------------
\* State
\* ------------------------------------------------------------------------
VARIABLES
  upl,      \* SpecUpl: the Upl object the methods are applied to
  out,      \* SpecUpl: the last method call, its arguments and its result
  kids,     \* SpecKind: the Upl objects split and divide have returned
  upls,     \* Spec: UplService.upls, the active VecPack (a Vec of Upl)
  archive,  \* Spec: UplService.archive, the archive VecPack
  req,      \* Spec: the close_cart requests in flight, one per worker
  ret,      \* Spec: the response delivered by the last step, if any
  nreq      \* Spec: number of requests accepted so far (SpecKind: of calls)

vars == <<upl, out, kids, upls, archive, req, ret, nreq>>
uplVars == <<upl, out, kids>>
svcVars == <<upls, archive, req, ret, nreq>>

\* ------------------------------------------------------------------------
\* Inputs
\* ------------------------------------------------------------------------
Carts == {"c1", "c2"}
Users == {1}
Locks ==
  {Lock_None, Lock_Inventory(1)}
    \cup {Lock_Cart(c) : c \in Carts} \cup {Lock_Delivery(d) : d \in {1, 2}}
Locations ==
  {Location_Stock(1), Location_Stock(2), Location_Discard(1)}
    \cup {Location_Cart(c) : c \in Carts} \cup {Location_Delivery(d) : d \in {1, 2}}

\* ------------------------------------------------------------------------
\* SpecUpl: one Upl object and its methods
\* ------------------------------------------------------------------------
NoLocation == Location_Stock(0)
Call(op, l, to, ok) ==
  [op |-> op, lock |-> l, to |-> to, ok |-> ok, new_upl_id |-> 0, n |-> 0,
   new |-> <<>>, vat |-> "", by |-> 0, arg |-> <<>>]

InitUplService ==
  /\ upls = <<>>
  /\ archive = <<>>
  /\ req = <<>>
  /\ ret = <<>>
  /\ nreq = 0

InitUpl ==
  /\ \E piece \in {1, 3}, is_opened \in BOOLEAN, stock \in {1, 2} :
       upl = Upl_new(119, 1, "ml", 7, piece, 4, TRUE, 100, "_27", 1, 60,
                     Location_Stock(stock), <<>>, is_opened, 1).upl
  /\ out = Call("new", Lock_None, NoLocation, TRUE)
  /\ kids = <<>>
  /\ InitUplService

UplLock(l, by) ==
  /\ Len(upl.history) < MaxHist
  /\ LET r == lock(upl, l, by)
     IN /\ upl' = r.upl
        /\ out' = Call("lock", l, NoLocation, r.ok)
  /\ UNCHANGED <<kids, svcVars>>

UplUnlock(l, by) ==
  /\ Len(upl.history) < MaxHist
  /\ LET r == unlock(upl, l, by)
     IN /\ upl' = r.upl
        /\ out' = Call("unlock", l, NoLocation, r.ok)
  /\ UNCHANGED <<kids, svcVars>>

UplMove(to, by) ==
  /\ Len(upl.history) < MaxHist
  /\ LET r == move_upl(upl, to, by)
     IN /\ upl' = r.upl
        /\ out' = Call("move_upl", Lock_None, to, r.ok)
  /\ UNCHANGED <<kids, svcVars>>

NextUpl ==
  \/ \E l \in Locks, by \in Users : UplLock(l, by)
  \/ \E l \in Locks, by \in Users : UplUnlock(l, by)
  \/ \E to \in Locations, by \in Users : UplMove(to, by)

SpecUpl == InitUpl /\ [][NextUpl]_vars

\* ------------------------------------------------------------------------
\* SpecKind: one Upl object and the methods that change its kind and prices
\* ------------------------------------------------------------------------
\* a call of split, split_bulk, open, close, divide, merge or set_price:
\* new_upl_id and n are its arguments (n the piece, the amount or the net
\* price), new the Upl objects it returned; by is the created_by of a
\* divide and arg the Upl a merge is given or the ids a split_bulk is given
KindCall(op, new_upl_id, n, vat, ok, new) ==
  [op |-> op, lock |-> Lock_None, to |-> NoLocation, ok |-> ok,
   new_upl_id |-> new_upl_id, n |-> n, new |-> new, vat |-> vat, by |-> 0,
   arg |-> <<>>]

\* 228 and 317587 are valid ids, 218 is not
NewIds == {228, 317587, 218}

\* a DerivedProduct divided from another Upl, 900
Stranger ==
  divide(Upl_new(900, 1, "ml", 7, 4, 4, TRUE, 100, "_27", 1, 60,
                 Location_Stock(1), <<>>, TRUE, 1).upl, 228, 1, 1).new[1]

InitKind ==
  /\ \E piece \in {1, 3}, is_opened \in BOOLEAN, sku_divisible \in BOOLEAN,
        sku_divisible_amount \in {1, 4} :
       upl = Upl_new(119, 1, "ml", 7, piece, sku_divisible_amount, sku_divisible,
                     100, "_27", 1, 60, Location_Stock(1), <<>>, is_opened, 1).upl
  /\ out = Call("new", Lock_None, NoLocation, TRUE)
  /\ kids = <<>>
  /\ InitUplService

UplSplit(new_upl_id, piece, by) ==
  /\ nreq < MaxCalls
  /\ LET r == split(upl, new_upl_id, piece, by)
     IN /\ upl' = r.upl
        /\ kids' = kids \o r.new
        /\ out' = KindCall("split", new_upl_id, piece, "", r.ok, r.new)
  /\ nreq' = nreq + 1
  /\ UNCHANGED <<upls, archive, req, ret>>

UplSplitBulk(new_upl_ids, by) ==
  /\ nreq < MaxCalls
  /\ LET r == split_bulk(upl, new_upl_ids, by)
     IN /\ upl' = r.upl
        /\ kids' = kids \o r.result
        /\ out' = [KindCall("split_bulk", 0, Len(new_upl_ids), "", r.ok, r.result)
                     EXCEPT !.arg = new_upl_ids]
  /\ nreq' = nreq + 1
  /\ UNCHANGED <<upls, archive, req, ret>>

UplOpen ==
  /\ nreq < MaxCalls
  /\ LET r == open(upl)
     IN /\ upl' = r.upl
        /\ out' = KindCall("open", 0, 0, "", r.ok, <<>>)
  /\ nreq' = nreq + 1
  /\ UNCHANGED <<kids, upls, archive, req, ret>>

UplClose ==
  /\ nreq < MaxCalls
  /\ LET r == close(upl)
     IN /\ upl' = r.upl
        /\ out' = KindCall("close", 0, 0, "", r.ok, <<>>)
  /\ nreq' = nreq + 1
  /\ UNCHANGED <<kids, upls, archive, req, ret>>

\* the caller passes an id no Upl it holds has yet
UplDivide(new_upl_id, requested_amount, by) ==
  /\ \A i \in DOMAIN kids : kids[i].id # new_upl_id
  /\ nreq < MaxCalls
  /\ LET r == divide(upl, new_upl_id, requested_amount, by)
     IN /\ upl' = r.upl
        /\ kids' = kids \o r.new
        /\ out' = [KindCall("divide", new_upl_id, requested_amount, "", r.ok, r.new)
                     EXCEPT !.by = by]
  /\ nreq' = nreq + 1
  /\ UNCHANGED <<upls, archive, req, ret>>

\* merge takes the Upl by value: a merged Upl is gone
UplMerge(i, by) ==
  /\ i \in DOMAIN kids
  /\ nreq < MaxCalls
  /\ LET r == merge(upl, kids[i], by)
     IN /\ upl' = r.upl
        /\ kids' = IF r.ok THEN SubSeq(kids, 1, i - 1) \o SubSeq(kids, i + 1, Len(kids))
                    ELSE kids
        /\ out' = [KindCall("merge", kids[i].id, kids[i].kind.amount, "", r.ok, <<>>)
                     EXCEPT !.arg = <<kids[i]>>]
  /\ nreq' = nreq + 1
  /\ UNCHANGED <<upls, archive, req, ret>>

UplMergeStranger(by) ==
  /\ nreq < MaxCalls
  /\ LET r == merge(upl, Stranger, by)
     IN /\ upl' = r.upl
        /\ out' = [KindCall("merge", Stranger.id, Stranger.kind.amount, "", r.ok, <<>>)
                     EXCEPT !.arg = <<Stranger>>]
  /\ nreq' = nreq + 1
  /\ UNCHANGED <<kids, upls, archive, req, ret>>

UplSetPrice(sku_net_price, sku_vat) ==
  /\ nreq < MaxCalls
  /\ LET r == set_price(upl, sku_net_price, sku_vat)
     IN /\ upl' = r.upl
        /\ out' = KindCall("set_price", 0, sku_net_price, sku_vat, r.ok, <<>>)
  /\ nreq' = nreq + 1
  /\ UNCHANGED <<kids, upls, archive, req, ret>>

\* set_depreciation and remove_deprecation of the object
UplSetDepreciation(depreciation_id, comment, by) ==
  /\ nreq < MaxCalls
  /\ LET r == set_depreciation(upl, depreciation_id, comment, by)
     IN /\ upl' = r.upl
        /\ out' = KindCall("set_depreciation", 0, depreciation_id, "", r.ok, <<>>)
  /\ nreq' = nreq + 1
  /\ UNCHANGED <<kids, upls, archive, req, ret>>

UplRemoveDeprecation(by) ==
  /\ nreq < MaxCalls
  /\ LET r == remove_deprecation(upl, by)
     IN /\ upl' = r.upl
        /\ out' = KindCall("remove_deprecation", 0, 0, "", r.ok, <<>>)
  /\ nreq' = nreq + 1
  /\ UNCHANGED <<kids, upls, archive, req, ret>>

\* set_depreciation_price(Some(p), by) of the object
UplSetDepreciationPrice(p, by) ==
  /\ nreq < MaxCalls
  /\ LET r == set_depreciation_price(upl, <<p>>, by)
     IN /\ upl' = r.upl
        /\ out' = KindCall("set_depreciation_price", 0, p, "", r.ok, <<>>)
  /\ nreq' = nreq + 1
  /\ UNCHANGED <<kids, upls, archive, req, ret>>

\* set_depreciation of an object divide has returned
KidSetDepreciation(i, depreciation_id, comment, by) ==
  /\ i \in DOMAIN kids
  /\ nreq < MaxCalls
  /\ LET r == set_depreciation(kids[i], depreciation_id, comment, by)
     IN /\ kids' = [kids EXCEPT ![i] = r.upl]
        /\ out' = KindCall("kid_set_depreciation", kids[i].id, depreciation_id, "", r.ok, <<>>)
  /\ nreq' = nreq + 1
  /\ UNCHANGED <<upl, upls, archive, req, ret>>

\* the user who divides is not the one who created the object
Dividers == {2}

NextKind ==
  \/ \E by \in Users : UplLock(Lock_Cart("c1"), by)
  \/ \E by \in Users : UplUnlock(Lock_Cart("c1"), by)
  \/ \E id \in {228, 218}, piece \in 0..2, by \in Users : UplSplit(id, piece, by)
  \/ \E ids \in {<<228, 317587>>, <<218>>}, by \in Users : UplSplitBulk(ids, by)
  \/ UplOpen
  \/ UplClose
  \/ \E id \in NewIds, amount \in 0..1, by \in Dividers : UplDivide(id, amount, by)
  \/ \E i \in 1..3, by \in Users : UplMerge(i, by)
  \/ \E by \in Users : UplMergeStranger(by)
  \/ \E p \in {30, 75}, vat \in {"_5"} : UplSetPrice(p, vat)
  \/ \E by \in Users : UplSetDepreciation(1, "torn", by)
  \/ \E by \in Users : UplRemoveDeprecation(by)
  \/ \E p \in {30, 75}, by \in Users : UplSetDepreciationPrice(p, by)
  \/ \E i \in 1..3, by \in Users : KidSetDepreciation(i, 1, "torn", by)

SpecKind == InitKind /\ [][NextKind]_vars

\* ------------------------------------------------------------------------
\* VecPack, the keyed document store behind both collections (packman)
\* ------------------------------------------------------------------------
IdsOf(pack) == {pack[i].id : i \in DOMAIN pack}

\* position of the item with this id, 0 when there is none
IndexOf(pack, id) ==
  IF id \in IdsOf(pack)
    THEN CHOOSE i \in DOMAIN pack :
           pack[i].id = id /\ \A j \in DOMAIN pack : pack[j].id = id => i <= j
    ELSE 0

\* find_id / find_id_mut: the PackError is "" on success
VecPack_find_id(pack, id) ==
  IF IndexOf(pack, id) = 0
    THEN [err |-> "ObjectNotFound", at |-> 0]
    ELSE [err |-> "", at |-> IndexOf(pack, id)]

VecPack_insert(pack, item) ==
  IF item.id \in IdsOf(pack)
    THEN [err |-> "IDTaken", pack |-> pack]
    ELSE [err |-> "", pack |-> Append(pack, item)]

VecPack_remove_pack(pack, id) ==
  IF IndexOf(pack, id) = 0
    THEN [err |-> "ObjectNotFound", pack |-> pack]
    ELSE [err |-> "",
          pack |-> SubSeq(pack, 1, IndexOf(pack, id) - 1)
                     \o SubSeq(pack, IndexOf(pack, id) + 1, Len(pack))]

\* ------------------------------------------------------------------------
\* Errors and views (src/src/prelude.rs)
\* ------------------------------------------------------------------------
\* impl From<PackError> for ServiceError
ServiceError_from(error) ==
  IF error = "ObjectNotFound" THEN "NotFound" ELSE "InternalError"

\* impl From<Upl> for UplObj (the fields that do not depend on the clock)
UplObj_from(u) ==
  [id |-> u.id,
   product_id |-> u.product_id,
   sku_id |-> get_sku(u),
   product_unit |-> u.product_unit,
   upl_piece |-> get_upl_piece(u),
   procurement_id |-> u.procurement_id,
   procurement_net_price |-> u.procurement_net_price,
   procurement_net_price_sku |-> u.procurement_net_price_sku,
   kind |-> u.kind,
   lock |-> u.lock,
   location |-> u.location,
   has_special_price |-> get_upl_has_special_price(u),
   price_net |-> IF get_upl_special_price_net(u) # <<>>
                   THEN get_upl_special_price_net(u)[1] ELSE u.price_net,
   vat |-> u.vat,
   price_gross |-> IF get_upl_special_price_net(u) # <<>>
                     THEN Mul_VAT(get_upl_special_price_net(u)[1], u.vat)
                     ELSE u.price_gross,
   margin_net |-> IF get_upl_special_price_margin(u) # <<>>
                    THEN get_upl_special_price_margin(u)[1] ELSE u.margin_net,
   is_archived |-> FALSE,
   created_by |-> u.created_by]

\* ------------------------------------------------------------------------
\* UplService (src/src/main.rs): what each request does to a collection.
\* Each operator is one statement holding the Mutex guard of the collection:
\* [res, pack, obj], res the ServiceResult ("Ok" or the error), pack the
\* collection afterwards, obj the UplObj returned (an Option).
\* ------------------------------------------------------------------------
Fail(res, pack) == [res |-> res, pack |-> pack, obj |-> <<>>]
Done(pack, u) == [res |-> "Ok", pack |-> pack, obj |-> <<UplObj_from(u)>>]

\* the strings DateTime::parse_from_rfc3339 accepts, among the inputs
Rfc3339 == {"2030-01-01T00:00:00+00:00"}

create_new(pack, r) ==
  IF r.best_before # "" /\ r.best_before \notin Rfc3339
    THEN Fail("BadRequest", pack)
  ELSE IF VAT_from_str(r.sku_vat) = ""
    THEN Fail("BadRequest", pack)
  ELSE LET best_before == IF r.best_before = "" THEN <<>> ELSE <<r.best_before>>
           new_upl == Upl_new(r.upl_id, r.product_id, r.product_unit, r.sku,
                        r.piece, r.sku_divisible_amount, r.sku_divisible,
                        r.sku_net_price, VAT_from_str(r.sku_vat),
                        r.procurement_id, r.procurement_net_price_sku,
                        Location_Stock(r.stock_id), best_before, r.is_opened,
                        r.created_by)
           ins == VecPack_insert(pack, new_upl.upl)
       IN IF ~new_upl.ok THEN Fail("BadRequest", pack)
          ELSE IF ins.err # "" THEN Fail(ServiceError_from(ins.err), pack)
          ELSE Done(ins.pack, new_upl.upl)

get_by_id(pack, upl_id) ==
  LET f == VecPack_find_id(pack, upl_id)
  IN IF f.err # "" THEN Fail(ServiceError_from(f.err), pack)
     ELSE Done(pack, pack[f.at])

get_by_id_archive(pack, upl_id) ==
  LET f == VecPack_find_id(pack, upl_id)
  IN IF f.err # "" THEN Fail(ServiceError_from(f.err), pack)
     ELSE [res |-> "Ok", pack |-> pack,
           obj |-> <<[UplObj_from(pack[f.at]) EXCEPT !.is_archived = TRUE]>>]

lock_to_cart(pack, upl_id, cart_id, created_by) ==
  LET f == VecPack_find_id(pack, upl_id)
  IN IF f.err # "" THEN Fail(ServiceError_from(f.err), pack)
     ELSE LET r == lock(pack[f.at], Lock_Cart(cart_id), created_by)
          IN IF ~r.ok THEN Fail("BadRequest", pack)
             ELSE Done([pack EXCEPT ![f.at] = r.upl], r.upl)

release_lock_from_cart(pack, upl_id, cart_id, created_by) ==
  LET f == VecPack_find_id(pack, upl_id)
  IN IF f.err # "" THEN Fail(ServiceError_from(f.err), pack)
     ELSE LET r == unlock(pack[f.at], Lock_Cart(cart_id), created_by)
          IN IF ~r.ok THEN Fail("BadRequest", pack)
             ELSE Done([pack EXCEPT ![f.at] = r.upl], r.upl)

\* close_cart, first statement: move every UPL locked to the cart
close_cart_move(pack, cart_id, created_by) ==
  [i \in DOMAIN pack |->
     IF get_lock(pack[i]) = Lock_Cart(cart_id)
       THEN move_upl(pack[i], Location_Cart(cart_id), created_by).upl
       ELSE pack[i]]

\* close_cart, second statement: clone every UPL at the cart's location
close_cart_collect(pack, cart_id) ==
  SelectSeq(pack, LAMBDA u : u.location = Location_Cart(cart_id))

\* split and divide, first statement: [res, pack, new], new the Upl the
\* method returned, kept in the local new_upl
split_first(pack, upl_id, new_upl_id, piece, created_by) ==
  LET f == VecPack_find_id(pack, upl_id)
  IN IF f.err # "" THEN [res |-> ServiceError_from(f.err), pack |-> pack, new |-> <<>>]
     ELSE LET r == split(pack[f.at], new_upl_id, piece, created_by)
          IN IF ~r.ok THEN [res |-> "BadRequest", pack |-> pack, new |-> <<>>]
             ELSE [res |-> "Ok", pack |-> [pack EXCEPT ![f.at] = r.upl], new |-> r.new]

divide_first(pack, upl_id, new_upl_id, requested_amount, created_by) ==
  LET f == VecPack_find_id(pack, upl_id)
  IN IF f.err # "" THEN [res |-> ServiceError_from(f.err), pack |-> pack, new |-> <<>>]
     ELSE LET r == divide(pack[f.at], new_upl_id, requested_amount, created_by)
          IN IF ~r.ok THEN [res |-> "BadRequest", pack |-> pack, new |-> <<>>]
             ELSE [res |-> "Ok", pack |-> [pack EXCEPT ![f.at] = r.upl], new |-> r.new]

\* split and divide, second statement: insert the new UPL
insert_new(pack, new_upl) ==
  LET ins == VecPack_insert(pack, new_upl)
  IN IF ins.err # "" THEN Fail(ServiceError_from(ins.err), pack)
     ELSE [res |-> "Ok", pack |-> ins.pack, obj |-> <<>>]

\* merge_back, first statement and the match on the kind of the clone
merge_back_first(pack, upl_to_merge_back) ==
  LET f == VecPack_find_id(pack, upl_to_merge_back)
  IN IF f.err # "" THEN [res |-> ServiceError_from(f.err), child |-> <<>>]
     ELSE IF pack[f.at].kind.tag # "DerivedProduct"
       THEN [res |-> "BadRequest", child |-> <<>>]
     ELSE [res |-> "Ok", child |-> <<pack[f.at]>>]

\* merge_back, second statement: merge into the parent
merge_back_merge(pack, child_upl, created_by) ==
  LET f == VecPack_find_id(pack, child_upl.kind.derived_from)
  IN IF f.err # "" THEN Fail(ServiceError_from(f.err), pack)
     ELSE LET r == merge(pack[f.at], child_upl, created_by)
          IN IF ~r.ok THEN Fail("BadRequest", pack)
             ELSE [res |-> "Ok", pack |-> [pack EXCEPT ![f.at] = r.upl], obj |-> <<>>]

\* merge_back, third statement: remove the child
merge_back_remove(pack, child_upl) ==
  LET rm == VecPack_remove_pack(pack, child_upl.id)
  IN IF rm.err # "" THEN Fail(ServiceError_from(rm.err), pack)
     ELSE [res |-> "Ok", pack |-> rm.pack, obj |-> <<>>]

open_upl(pack, upl_id) ==
  LET f == VecPack_find_id(pack, upl_id)
  IN IF f.err # "" THEN Fail(ServiceError_from(f.err), pack)
     ELSE LET r == open(pack[f.at])
          IN IF ~r.ok THEN Fail("BadRequest", pack)
             ELSE Done([pack EXCEPT ![f.at] = r.upl], r.upl)

close_upl(pack, upl_id) ==
  LET f == VecPack_find_id(pack, upl_id)
  IN IF f.err # "" THEN Fail(ServiceError_from(f.err), pack)
     ELSE LET r == close(pack[f.at])
          IN IF ~r.ok THEN Fail("BadRequest", pack)
             ELSE Done([pack EXCEPT ![f.at] = r.upl], r.upl)

set_sku_price(pack, r) ==
  IF VAT_from_str(r.vat) = "" THEN Fail("BadRequest", pack)
  ELSE IF Mul_VAT(r.net_price, VAT_from_str(r.vat)) # r.gross_price
    THEN Fail("BadRequest", pack)
  ELSE [res |-> "Ok",
        pack |-> [i \in DOMAIN pack |->
                    IF get_sku(pack[i]) = r.sku
                      THEN set_price(pack[i], r.net_price, VAT_from_str(r.vat)).upl
                      ELSE pack[i]],
        obj |-> <<>>]

\* create_new_bulk, one turn of the loop that yields every id
create_new_bulk_item_yields_all(pack, new_upl) ==
  IF new_upl.status # "Ok" THEN [pack |-> pack, yield |-> <<>>]
  ELSE [pack |-> create_new(pack, new_upl.upl).pack, yield |-> <<new_upl.upl.upl_id>>]

\* create_new_bulk, one turn of the loop of the stream! block: [pack, yield],
\* yield the id the turn yields (an Option); new_upl is the item the
\* incoming stream gave, Ok(UplNew) or Err(Status)
create_new_bulk_item(pack, new_upl) ==
  IF new_upl.status # "Ok" THEN [pack |-> pack, yield |-> <<>>]
  ELSE LET res == create_new(pack, new_upl.upl)
       IN IF res.res # "Ok" THEN [pack |-> pack, yield |-> <<>>]
          ELSE [pack |-> res.pack, yield |-> <<res.obj[1].id>>]

\* ------------------------------------------------------------------------
\* Spec: the service
\* ------------------------------------------------------------------------
\* the workers that can hold a request made of several statements
Procs == {1, 2}

\* UplNew payloads
BaseNew(upl_id) ==
  [upl_id |-> upl_id, product_id |-> 1, product_unit |-> "db", sku |-> 42,
   piece |-> 1, sku_divisible_amount |-> 1, sku_divisible |-> FALSE,
   sku_net_price |-> 100, sku_vat |-> "27", procurement_id |-> 1,
   procurement_net_price_sku |-> 60, stock_id |-> 1, best_before |-> "",
   is_opened |-> FALSE, created_by |-> 1]

\* 119 and 228 are valid ids, 218 is not
UplIds == {119, 228}
NewPayloads ==
  {BaseNew(id) : id \in UplIds \cup {218}}
    \cup {[BaseNew(119) EXCEPT !.sku_vat = "20"],
          [BaseNew(119) EXCEPT !.best_before = "tomorrow"]}

\* a worker's request of several statements (close_cart, split, divide,
\* merge_back): its position, its arguments (upl, new_upl_id and n are the
\* fields of r that split, divide and merge_back read) and its locals
\* (new_upl is the new_upl of split and divide and the child_upl of
\* merge_back).  at_call,
\* before, solo and n0 are history variables, not locals of the code:
\* at_call the ids that were locked to the cart or at the cart's location in
\* the state the first statement of close_cart ran in; before the two
\* collections in the state the first statement ran in, solo whether every
\* other worker was idle then, n0 the number of requests accepted by then.
Idle ==
  [pc |-> "idle", cart_id |-> "", created_by |-> 0, upls_to_archive |-> <<>>,
   upl_ids |-> <<>>, at_call |-> {}, upl |-> 0, new_upl_id |-> 0, n |-> 0,
   new_upl |-> <<>>, before |-> <<>>, solo |-> FALSE, n0 |-> 0]

NoRet == [op |-> "", upl_id |-> 0, cart_id |-> "", res |-> "", obj |-> <<>>]
Response(op, upl_id, cart_id, res, obj) ==
  [op |-> op, upl_id |-> upl_id, cart_id |-> cart_id, res |-> res, obj |-> obj]

\* the collections VecPack::load_or_init finds on disk at start: empty, or
\* what earlier CreateNew requests left there
Loaded ==
  {<<>>,
   create_new(<<>>, BaseNew(119)).pack,
   create_new(create_new(<<>>, BaseNew(119)).pack, BaseNew(228)).pack}

Init ==
  /\ upls \in Loaded
  /\ archive = <<>>
  /\ req = [p \in Procs |-> Idle]
  /\ ret = NoRet
  /\ nreq = 0
  /\ upl = <<>>
  /\ out = <<>>
  /\ kids = <<>>

CreateNew(r) ==
  /\ nreq < MaxReq
  /\ LET o == create_new(upls, r)
     IN /\ upls' = o.pack
        /\ ret' = Response("create_new", r.upl_id, "", o.res, o.obj)
  /\ nreq' = nreq + 1
  /\ UNCHANGED <<archive, req, uplVars>>

GetById(upl_id) ==
  /\ nreq < MaxReq
  /\ LET o == get_by_id(upls, upl_id)
     IN ret' = Response("get_by_id", upl_id, "", o.res, o.obj)
  /\ nreq' = nreq + 1
  /\ UNCHANGED <<upls, archive, req, uplVars>>

GetByIdArchive(upl_id) ==
  /\ nreq < MaxReq
  /\ LET o == get_by_id_archive(archive, upl_id)
     IN ret' = Response("get_by_id_archive", upl_id, "", o.res, o.obj)
  /\ nreq' = nreq + 1
  /\ UNCHANGED <<upls, archive, req, uplVars>>

LockToCart(upl_id, cart_id, by) ==
  /\ nreq < MaxReq
  /\ LET o == lock_to_cart(upls, upl_id, cart_id, by)
     IN /\ upls' = o.pack
        /\ ret' = Response("lock_to_cart", upl_id, cart_id, o.res, o.obj)
  /\ nreq' = nreq + 1
  /\ UNCHANGED <<archive, req, uplVars>>

ReleaseLockFromCart(upl_id, cart_id, by) ==
  /\ nreq < MaxReq
  /\ LET o == release_lock_from_cart(upls, upl_id, cart_id, by)
     IN /\ upls' = o.pack
        /\ ret' = Response("release_lock_from_cart", upl_id, cart_id, o.res, o.obj)
  /\ nreq' = nreq + 1
  /\ UNCHANGED <<archive, req, uplVars>>

\* a new request of several statements goes to the first free worker
FirstIdle(p) ==
  /\ req[p].pc = "idle"
  /\ \A q \in Procs : req[q].pc = "idle" => p <= q

\* close_cart, lines 343-357
CloseCartMove(p, cart_id, by) ==
  /\ nreq < MaxReq
  /\ FirstIdle(p)
  /\ upls' = close_cart_move(upls, cart_id, by)
  /\ req' = [req EXCEPT ![p] =
       [Idle EXCEPT
          !.pc = "collect", !.cart_id = cart_id, !.created_by = by,
          !.at_call = {upls[i].id : i \in
                         {j \in DOMAIN upls :
                            \/ upls[j].lock = Lock_Cart(cart_id)
                            \/ upls[j].location = Location_Cart(cart_id)}}]]
  /\ ret' = NoRet
  /\ nreq' = nreq + 1
  /\ UNCHANGED <<archive, uplVars>>

\* close_cart, lines 360-379; with nothing to archive both loops are empty
\* and the request returns
CloseCartCollect(p) ==
  /\ req[p].pc = "collect"
  /\ LET todo == close_cart_collect(upls, req[p].cart_id)
     IN IF todo = <<>>
          THEN /\ req' = [req EXCEPT ![p] = Idle]
               /\ ret' = Response("close_cart", 0, req[p].cart_id, "Ok", <<>>)
          ELSE /\ req' = [req EXCEPT
                            ![p].pc = "archive",
                            ![p].upls_to_archive = todo,
                            ![p].upl_ids = [i \in DOMAIN todo |-> todo[i].id]]
               /\ ret' = NoRet
  /\ UNCHANGED <<upls, archive, nreq, uplVars>>

\* close_cart, lines 382-384: one turn of the loop
CloseCartArchive(p) ==
  /\ req[p].pc = "archive"
  /\ archive' = VecPack_insert(archive, Head(req[p].upls_to_archive)).pack
  /\ req' = [req EXCEPT
               ![p].upls_to_archive = Tail(@),
               ![p].pc = IF Tail(req[p].upls_to_archive) = <<>>
                           THEN "remove" ELSE "archive"]
  /\ ret' = NoRet
  /\ UNCHANGED <<upls, nreq, uplVars>>

\* close_cart, lines 387-391: one turn of the loop; the request returns
\* after the last one
CloseCartRemove(p) ==
  /\ req[p].pc = "remove"
  /\ upls' = VecPack_remove_pack(upls, Head(req[p].upl_ids)).pack
  /\ IF Tail(req[p].upl_ids) = <<>>
       THEN /\ req' = [req EXCEPT ![p] = Idle]
            /\ ret' = Response("close_cart", 0, req[p].cart_id, "Ok", <<>>)
       ELSE /\ req' = [req EXCEPT ![p].upl_ids = Tail(@)]
            /\ ret' = NoRet
  /\ UNCHANGED <<archive, nreq, uplVars>>

Next ==
  \/ \E r \in NewPayloads : CreateNew(r)
  \/ \E id \in UplIds : GetById(id)
  \/ \E id \in UplIds : GetByIdArchive(id)
  \/ \E id \in UplIds, c \in Carts, by \in Users : LockToCart(id, c, by)
  \/ \E id \in UplIds, c \in Carts, by \in Users : ReleaseLockFromCart(id, c, by)
  \/ \E p \in Procs, c \in Carts, by \in Users : CloseCartMove(p, c, by)
  \/ \E p \in Procs : CloseCartCollect(p)
  \/ \E p \in Procs : CloseCartArchive(p)
  \/ \E p \in Procs : CloseCartRemove(p)

Spec == Init /\ [][Next]_vars

\* ------------------------------------------------------------------------
\* SpecOps: the service under the requests that change kinds and prices
\* ------------------------------------------------------------------------
\* the collections found at start: one UPL 119 of sku 42, a bulk of three, a
\* divisible Sku or an opened one
LoadedOps ==
  {create_new(<<>>, [BaseNew(119) EXCEPT !.piece = 3]).pack,
   create_new(<<>>, [BaseNew(119) EXCEPT !.sku_divisible = TRUE,
                                         !.sku_divisible_amount = 4]).pack,
   create_new(<<>>, [BaseNew(119) EXCEPT !.sku_divisible = TRUE,
                                         !.sku_divisible_amount = 4,
                                         !.piece = 4, !.is_opened = TRUE]).pack}

InitOps ==
  /\ upls \in LoadedOps
  /\ archive = <<>>
  /\ req = [p \in Procs |-> Idle]
  /\ ret = NoRet
  /\ nreq = 0
  /\ upl = <<>>
  /\ out = <<>>
  /\ kids = <<>>

\* the history variables of a request that goes on to its second statement
Started(p, pc, upl_id, new_upl_id, n, new_upl, by) ==
  [Idle EXCEPT !.pc = pc, !.upl = upl_id, !.new_upl_id = new_upl_id, !.n = n,
               !.new_upl = new_upl,
               !.created_by = by, !.before = <<upls, archive>>,
               !.solo = (\A q \in Procs \ {p} : req[q].pc = "idle"),
               !.n0 = nreq + 1]

\* split, lines 193-201
SplitFirst(p, upl_id, new_upl_id, piece, by) ==
  /\ nreq < MaxReq
  /\ FirstIdle(p)
  /\ LET o == split_first(upls, upl_id, new_upl_id, piece, by)
     IN /\ upls' = o.pack
        /\ IF o.res = "Ok"
             THEN /\ req' = [req EXCEPT ![p] = Started(p, "split_insert", upl_id, new_upl_id, piece, o.new, by)]
                  /\ ret' = NoRet
             ELSE /\ req' = req
                  /\ ret' = Response("split", upl_id, "", o.res, <<>>)
  /\ nreq' = nreq + 1
  /\ UNCHANGED <<archive, uplVars>>

\* divide, lines 214-223
DivideFirst(p, upl_id, new_upl_id, requested_amount, by) ==
  /\ nreq < MaxReq
  /\ FirstIdle(p)
  /\ LET o == divide_first(upls, upl_id, new_upl_id, requested_amount, by)
     IN /\ upls' = o.pack
        /\ IF o.res = "Ok"
             THEN /\ req' = [req EXCEPT ![p] = Started(p, "divide_insert", upl_id, new_upl_id, requested_amount, o.new, by)]
                  /\ ret' = NoRet
             ELSE /\ req' = req
                  /\ ret' = Response("divide", upl_id, "", o.res, <<>>)
  /\ nreq' = nreq + 1
  /\ UNCHANGED <<archive, uplVars>>

\* split line 204, divide line 226
InsertNew(p) ==
  /\ req[p].pc \in {"split_insert", "divide_insert"}
  /\ LET o == insert_new(upls, req[p].new_upl[1])
         op == IF req[p].pc = "split_insert" THEN "split" ELSE "divide"
     IN /\ upls' = o.pack
        /\ IF o.res = "Ok"
             THEN /\ req' = [req EXCEPT ![p].pc = op \o "_find"]
                  /\ ret' = NoRet
             ELSE /\ req' = [req EXCEPT ![p] = Idle]
                  /\ ret' = Response(op, req[p].upl, "", o.res, <<>>)
  /\ UNCHANGED <<archive, nreq, uplVars>>

\* split line 207, divide line 229: the request returns
FindSelf(p) ==
  /\ req[p].pc \in {"split_find", "divide_find"}
  /\ LET o == get_by_id(upls, req[p].upl)
         op == IF req[p].pc = "split_find" THEN "split" ELSE "divide"
     IN ret' = Response(op, req[p].upl, "", o.res, o.obj)
  /\ req' = [req EXCEPT ![p] = Idle]
  /\ UNCHANGED <<upls, archive, nreq, uplVars>>

\* merge_back, lines 469-483 and 499-503
MergeBackFirst(p, upl_to_merge_back, by) ==
  /\ nreq < MaxReq
  /\ FirstIdle(p)
  /\ LET o == merge_back_first(upls, upl_to_merge_back)
     IN IF o.res = "Ok"
          THEN /\ req' = [req EXCEPT ![p] =
                            Started(p, "merge_merge", upl_to_merge_back, 0, 0, o.child, by)]
               /\ ret' = NoRet
          ELSE /\ req' = req
               /\ ret' = Response("merge_back", upl_to_merge_back, "", o.res, <<>>)
  /\ nreq' = nreq + 1
  /\ UNCHANGED <<upls, archive, uplVars>>

\* merge_back, lines 485-494
MergeBackMerge(p) ==
  /\ req[p].pc = "merge_merge"
  /\ LET o == merge_back_merge(upls, req[p].new_upl[1], req[p].created_by)
     IN /\ upls' = o.pack
        /\ IF o.res = "Ok"
             THEN /\ req' = [req EXCEPT ![p].pc = "merge_remove"]
                  /\ ret' = NoRet
             ELSE /\ req' = [req EXCEPT ![p] = Idle]
                  /\ ret' = Response("merge_back", req[p].upl, "", o.res, <<>>)
  /\ UNCHANGED <<archive, nreq, uplVars>>

\* merge_back, line 497: the request returns
MergeBackRemove(p) ==
  /\ req[p].pc = "merge_remove"
  /\ LET o == merge_back_remove(upls, req[p].new_upl[1])
     IN /\ upls' = o.pack
        /\ ret' = Response("merge_back", req[p].upl, "", o.res, <<>>)
  /\ req' = [req EXCEPT ![p] = Idle]
  /\ UNCHANGED <<archive, nreq, uplVars>>

OpenUpl(upl_id) ==
  /\ nreq < MaxReq
  /\ LET o == open_upl(upls, upl_id)
     IN /\ upls' = o.pack
        /\ ret' = Response("open_upl", upl_id, "", o.res, o.obj)
  /\ nreq' = nreq + 1
  /\ UNCHANGED <<archive, req, uplVars>>

CloseUpl(upl_id) ==
  /\ nreq < MaxReq
  /\ LET o == close_upl(upls, upl_id)
     IN /\ upls' = o.pack
        /\ ret' = Response("close_upl", upl_id, "", o.res, o.obj)
  /\ nreq' = nreq + 1
  /\ UNCHANGED <<archive, req, uplVars>>

SetSkuPrice(r) ==
  /\ nreq < MaxReq
  /\ LET o == set_sku_price(upls, r)
     IN /\ upls' = o.pack
        /\ ret' = Response("set_sku_price", 0, "", o.res, o.obj)
  /\ nreq' = nreq + 1
  /\ UNCHANGED <<archive, req, uplVars>>

\* SetSkuPriceRequest payloads: 30 at 5% gives 31
PricePayloads ==
  {[sku |-> 42, net_price |-> 30, vat |-> "5", gross_price |-> g] : g \in {31, 32}}

NextOps ==
  \/ \E p \in Procs, new \in {228}, piece \in {1, 2}, by \in Users :
       SplitFirst(p, 119, new, piece, by)
  \/ \E p \in Procs, new \in {228, 317587}, by \in Users :
       DivideFirst(p, 119, new, 1, by)
  \/ \E p \in Procs : InsertNew(p)
  \/ \E p \in Procs : FindSelf(p)
  \/ \E p \in Procs, id \in UplIds, by \in Users : MergeBackFirst(p, id, by)
  \/ \E p \in Procs : MergeBackMerge(p)
  \/ \E p \in Procs : MergeBackRemove(p)
  \/ OpenUpl(119)
  \/ CloseUpl(119)
  \/ \E r \in PricePayloads : SetSkuPrice(r)
  \/ \E id \in UplIds, by \in Users : LockToCart(id, "c1", by)
  \/ \E p \in Procs, by \in Users : CloseCartMove(p, "c1", by)
  \/ \E p \in Procs : CloseCartCollect(p)
  \/ \E p \in Procs : CloseCartArchive(p)
  \/ \E p \in Procs : CloseCartRemove(p)

SpecOps == InitOps /\ [][NextOps]_vars

\* ------------------------------------------------------------------------
\* SpecBulk: the service under CreateNewBulk, with CreateNew and GetById
\* ------------------------------------------------------------------------
\* the items an incoming stream gives: Ok(UplNew) or Err(Status)
StreamItems ==
  {[status |-> "Ok", upl |-> r] : r \in NewPayloads}
    \cup {[status |-> "Err", upl |-> BaseNew(228)]}

Streams == UNION {[1..k -> StreamItems] : k \in 0..MaxStream}

\* a worker's create_new_bulk: its position, what is left of the incoming
\* stream, and the local upl_ids.  all, inserted, before, solo and n0 are
\* history variables: all the stream as it came, inserted the ids of the
\* UPLs the turns of this request have added to the active collection,
\* before the active collection when the request came, solo whether no
\* other worker held a request then, n0 the number of requests accepted by
\* then.
BulkIdle ==
  [pc |-> "idle", stream |-> <<>>, upl_ids |-> <<>>, all |-> <<>>,
   inserted |-> <<>>, before |-> <<>>, solo |-> FALSE, n0 |-> 0]

InitBulk ==
  /\ upls \in Loaded
  /\ archive = <<>>
  /\ req = [p \in Procs |-> BulkIdle]
  /\ ret = NoRet
  /\ nreq = 0
  /\ upl = <<>>
  /\ out = <<>>
  /\ kids = <<>>

\* create_new_bulk, line 596: the request comes with its stream
CreateNewBulk(p, stream) ==
  /\ nreq < MaxBulk
  /\ FirstIdle(p)
  /\ req' = [req EXCEPT ![p] =
               [BulkIdle EXCEPT
                  !.pc = "bulk", !.stream = stream, !.all = stream,
                  !.before = upls,
                  !.solo = (\A q \in Procs \ {p} : req[q].pc = "idle"),
                  !.n0 = nreq + 1]]
  /\ ret' = NoRet
  /\ nreq' = nreq + 1
  /\ UNCHANGED <<upls, archive, uplVars>>

\* create_new_bulk, lines 599-604 and 612-614: one turn of the loops
CreateNewBulkItem(p) ==
  /\ req[p].pc = "bulk"
  /\ req[p].stream # <<>>
  /\ LET o == create_new_bulk_item(upls, Head(req[p].stream))
     IN /\ upls' = o.pack
        /\ req' = [req EXCEPT
                     ![p].stream = Tail(@),
                     ![p].upl_ids = @ \o o.yield,
                     ![p].inserted =
                        @ \o [i \in 1..(Len(o.pack) - Len(upls)) |->
                                o.pack[Len(upls) + i].id]]
  /\ ret' = NoRet
  /\ UNCHANGED <<archive, nreq, uplVars>>

\* create_new_bulk, line 616: the stream has ended, the request returns
CreateNewBulkReturn(p) ==
  /\ req[p].pc = "bulk"
  /\ req[p].stream = <<>>
  /\ ret' = Response("create_new_bulk", 0, "", "Ok", req[p].upl_ids)
  /\ req' = [req EXCEPT ![p] = BulkIdle]
  /\ UNCHANGED <<upls, archive, nreq, uplVars>>

\* one CreateNewBulk at a time, beside the CreateNew and GetById requests
NextBulk ==
  \/ \E stream \in Streams : CreateNewBulk(1, stream)
  \/ \E p \in Procs : CreateNewBulkItem(p)
  \/ \E p \in Procs : CreateNewBulkReturn(p)
  \/ \E id \in UplIds : nreq < MaxBulk /\ CreateNew(BaseNew(id))
  \/ \E id \in UplIds : nreq < MaxBulk /\ GetById(id)

SpecBulk == InitBulk /\ [][NextBulk]_vars

\* ------------------------------------------------------------------------
\* SpecGuard: one statement under the Mutex guard, taken apart.  LockToCart
\* and ReleaseLockFromCart write the lock field and then the history of the
\* UPL they found, GetById reads; each holds the guard of self.upls from its
\* lock().await to the end of the statement.
\* ------------------------------------------------------------------------
\* a worker's statement: its position, the request, and item, the history
\* item the method is about to record.  before is a history variable, the
\* active collection when the guard was given.
GuardIdle ==
  [pc |-> "idle", op |-> "", upl |-> 0, cart_id |-> "", created_by |-> 0,
   item |-> <<>>, before |-> <<>>]

InitGuard ==
  /\ upls \in Loaded
  /\ archive = <<>>
  /\ req = [p \in Procs |-> GuardIdle]
  /\ ret = NoRet
  /\ nreq = 0
  /\ upl = <<>>
  /\ out = <<>>
  /\ kids = <<>>

\* a Mutex that gives its guard to whoever asks
MutexGivenToAll == TRUE

\* Mutex::lock: the guard is given when no statement holds it
MutexFree == \A q \in Procs : req[q].pc = "idle"

\* self.upls.lock().await of lock_to_cart, release_lock_from_cart, get_by_id
MutexLock(p, op, upl_id, cart_id, by) ==
  /\ nreq < MaxReq
  /\ req[p].pc = "idle"
  /\ MutexFree
  /\ req' = [req EXCEPT ![p] =
               [GuardIdle EXCEPT !.pc = "guard", !.op = op, !.upl = upl_id,
                                 !.cart_id = cart_id, !.created_by = by,
                                 !.before = upls]]
  /\ ret' = NoRet
  /\ nreq' = nreq + 1
  /\ UNCHANGED <<upls, archive, uplVars>>

\* get_by_id: find_id, clone, and the guard is dropped
FindId(p) ==
  /\ req[p].pc = "guard" /\ req[p].op = "get_by_id"
  /\ LET o == get_by_id(upls, req[p].upl)
     IN ret' = Response("get_by_id", req[p].upl, "", o.res, o.obj)
  /\ req' = [req EXCEPT ![p] = GuardIdle]
  /\ UNCHANGED <<upls, archive, nreq, uplVars>>

\* lock_to_cart, release_lock_from_cart: find_id_mut, the test of lock or
\* unlock and the assignment to self.lock; an error drops the guard
UplLockField(p) ==
  /\ req[p].pc = "guard" /\ req[p].op # "get_by_id"
  /\ LET f == VecPack_find_id(upls, req[p].upl)
         l == Lock_Cart(req[p].cart_id)
         r == IF req[p].op = "lock_to_cart"
                THEN lock(upls[f.at], l, req[p].created_by)
                ELSE unlock(upls[f.at], l, req[p].created_by)
     IN IF f.err # "" \/ ~r.ok
          THEN /\ upls' = upls
               /\ req' = [req EXCEPT ![p] = GuardIdle]
               /\ ret' = Response(req[p].op, req[p].upl, req[p].cart_id,
                                  IF f.err # "" THEN ServiceError_from(f.err)
                                  ELSE "BadRequest", <<>>)
          ELSE /\ upls' = [upls EXCEPT ![f.at].lock = r.upl.lock]
               /\ req' = [req EXCEPT
                            ![p].pc = "field_set",
                            ![p].item = <<r.upl.history[Len(r.upl.history)]>>]
               /\ ret' = NoRet
  /\ UNCHANGED <<archive, nreq, uplVars>>

\* lock, unlock: set_history; then the clone, and the guard is dropped
UplSetHistory(p) ==
  /\ req[p].pc = "field_set"
  /\ LET at == IndexOf(upls, req[p].upl)
         u == set_history(upls[at], req[p].item[1])
     IN /\ upls' = [upls EXCEPT ![at] = u]
        /\ ret' = Response(req[p].op, req[p].upl, req[p].cart_id, "Ok",
                           <<UplObj_from(u)>>)
  /\ req' = [req EXCEPT ![p] = GuardIdle]
  /\ UNCHANGED <<archive, nreq, uplVars>>

NextGuard ==
  \/ \E p \in Procs, op \in {"lock_to_cart", "release_lock_from_cart"},
        id \in UplIds, c \in Carts, by \in Users : MutexLock(p, op, id, c, by)
  \/ \E p \in Procs, id \in UplIds : MutexLock(p, "get_by_id", id, "", 0)
  \/ \E p \in Procs : FindId(p)
  \/ \E p \in Procs : UplLockField(p)
  \/ \E p \in Procs : UplSetHistory(p)

SpecGuard == InitGuard /\ [][NextGuard]_vars

\* ------------------------------------------------------------------------
\* SpecLive: the requests of several statements with the guards of the two
\* collections, under fair scheduling
\* ------------------------------------------------------------------------
\* A worker that holds a request is a record: pc the statement it is at,
\* locked whether that statement has been given its guard, guards the
\* guards the worker holds, and the locals of the request.  A statement
\* `self.upls.lock().await...` is two steps: the guard is given
\* (MutexAcquire), then the statement runs and its guard, a temporary, is
\* dropped at the end of the statement (Statement).  The pc "next" is the
\* suspension of create_new_bulk in stream.next().await.

\* a guard that is kept after the statement
MutexGuard_kept(r) == r

\* the end of a statement: the temporary MutexGuard is dropped
MutexGuard_drop(r) == [r EXCEPT !.guards = {}]

\* Mutex::lock of the statement the worker is at: the guard of the archive
\* for the insert of close_cart, the guard of the active collection for
\* every other statement; given when no worker holds it
MutexAcquire(p) ==
  /\ req[p].pc \notin {"idle", "next"}
  /\ ~req[p].locked
  /\ LET g == IF req[p].pc = "archive" THEN "archive" ELSE "upls"
     IN /\ \A q \in Procs : req[q].pc # "idle" => g \notin req[q].guards
        /\ req' = [req EXCEPT ![p].locked = TRUE, ![p].guards = @ \cup {g}]
  /\ UNCHANGED <<upls, archive, ret, nreq, uplVars>>

\* the statement the worker is at, under its guard: step.res is the answer
\* when the request returns with it, "" when the request goes on to the
\* statement step.to
Statement(p) ==
  /\ req[p].pc # "idle"
  /\ req[p].pc = "next" \/ req[p].locked
  /\ LET r == req[p]
         on(res, pack, arch, to) == [res |-> res, pack |-> pack, arch |-> arch, to |-> to]
         step ==
           CASE r.pc = "lock" ->
                  LET o == lock_to_cart(upls, r.upl, r.cart_id, r.created_by)
                  IN on(o.res, o.pack, archive, r)
             [] r.pc = "split_first" ->
                  LET o == split_first(upls, r.upl, r.new_upl_id, r.n, r.created_by)
                  IN on(IF o.res = "Ok" THEN "" ELSE o.res, o.pack, archive,
                        [r EXCEPT !.pc = "insert", !.new_upl = o.new])
             [] r.pc = "divide_first" ->
                  LET o == divide_first(upls, r.upl, r.new_upl_id, r.n, r.created_by)
                  IN on(IF o.res = "Ok" THEN "" ELSE o.res, o.pack, archive,
                        [r EXCEPT !.pc = "insert", !.new_upl = o.new])
             [] r.pc = "insert" ->
                  LET o == insert_new(upls, r.new_upl[1])
                  IN on(IF o.res = "Ok" THEN "" ELSE o.res, o.pack, archive,
                        [r EXCEPT !.pc = "find"])
             [] r.pc = "find" ->
                  on(get_by_id(upls, r.upl).res, upls, archive, r)
             [] r.pc = "merge_first" ->
                  LET o == merge_back_first(upls, r.upl)
                  IN on(IF o.res = "Ok" THEN "" ELSE o.res, upls, archive,
                        [r EXCEPT !.pc = "merge", !.new_upl = o.child])
             [] r.pc = "merge" ->
                  LET o == merge_back_merge(upls, r.new_upl[1], r.created_by)
                  IN on(IF o.res = "Ok" THEN "" ELSE o.res, o.pack, archive,
                        [r EXCEPT !.pc = "merge_remove"])
             [] r.pc = "merge_remove" ->
                  LET o == merge_back_remove(upls, r.new_upl[1])
                  IN on(o.res, o.pack, archive, r)
             [] r.pc = "move" ->
                  on("", close_cart_move(upls, r.cart_id, r.created_by), archive,
                     [r EXCEPT !.pc = "collect"])
             [] r.pc = "collect" ->
                  LET todo == close_cart_collect(upls, r.cart_id)
                  IN on(IF todo = <<>> THEN "Ok" ELSE "", upls, archive,
                        [r EXCEPT !.pc = "archive", !.upls_to_archive = todo,
                                  !.upl_ids = [i \in DOMAIN todo |-> todo[i].id]])
             [] r.pc = "archive" ->
                  on("", upls, VecPack_insert(archive, Head(r.upls_to_archive)).pack,
                     [r EXCEPT !.upls_to_archive = Tail(@),
                               !.pc = IF Tail(r.upls_to_archive) = <<>>
                                        THEN "remove" ELSE "archive"])
             [] r.pc = "remove" ->
                  on(IF Tail(r.upl_ids) = <<>> THEN "Ok" ELSE "",
                     VecPack_remove_pack(upls, Head(r.upl_ids)).pack, archive,
                     [r EXCEPT !.upl_ids = Tail(@)])
             [] r.pc = "next" ->
                  IF r.stream = <<>> THEN on("Ok", upls, archive, r)
                  ELSE on("", upls, archive,
                          IF Head(r.stream).status = "Ok"
                            THEN [r EXCEPT !.pc = "create"]
                            ELSE [r EXCEPT !.stream = Tail(@)])
             [] r.pc = "create" ->
                  LET o == create_new_bulk_item(upls, Head(r.stream))
                  IN on("", o.pack, archive,
                        [r EXCEPT !.pc = "next", !.stream = Tail(@),
                                  !.upl_ids = @ \o o.yield])
     IN /\ upls' = step.pack
        /\ archive' = step.arch
        /\ IF step.res = ""
             THEN /\ req' = [req EXCEPT ![p] = MutexGuard_drop([step.to EXCEPT !.locked = FALSE])]
                  /\ ret' = NoRet
             ELSE /\ req' = [req EXCEPT ![p] = Idle]
                  /\ ret' = Response(r.op, r.upl, r.cart_id, step.res, <<>>)
  /\ UNCHANGED <<nreq, uplVars>>

\* a request comes to the first free worker, which stands before the
\* first statement of its handler; then the guards and the statements.
\* The stream of a CreateNewBulk is the longest one, its first item an
\* error of the transport, the others UPL 119
NextLive ==
  \/ \E p \in Procs :
       \E r \in {[op |-> "lock_to_cart", pc |-> "lock", upl |-> 119, cart_id |-> "c1"],
                 [op |-> "close_cart", pc |-> "move", upl |-> 0, cart_id |-> "c1"],
                 [op |-> "split", pc |-> "split_first", upl |-> 119, cart_id |-> ""],
                 [op |-> "divide", pc |-> "divide_first", upl |-> 119, cart_id |-> ""],
                 [op |-> "merge_back", pc |-> "merge_first", upl |-> 228, cart_id |-> ""],
                 [op |-> "create_new_bulk", pc |-> "next", upl |-> 0, cart_id |-> ""]} :
         \E stream \in {t \in Streams :
                          /\ Len(t) = IF r.op = "create_new_bulk" THEN MaxStream ELSE 0
                          /\ \A i \in DOMAIN t :
                               IF i = 1 THEN t[i].status = "Err"
                               ELSE t[i].status = "Ok" /\ t[i].upl = BaseNew(119)} :
           /\ nreq < MaxBulk
           /\ FirstIdle(p)
           /\ req' = [req EXCEPT ![p] =
                        [pc |-> r.pc, locked |-> FALSE, guards |-> {}, op |-> r.op,
                         upl |-> r.upl, cart_id |-> r.cart_id, new_upl_id |-> 228,
                         n |-> 1, created_by |-> 1, new_upl |-> <<>>,
                         upls_to_archive |-> <<>>, upl_ids |-> <<>>,
                         stream |-> stream]]
           /\ ret' = NoRet
           /\ nreq' = nreq + 1
           /\ UNCHANGED <<upls, archive, uplVars>>
  \/ \E p \in Procs : MutexAcquire(p)
  \/ \E p \in Procs : Statement(p)

\* tokio's Mutex is fair, it gives the guard in the order of the calls of
\* lock, and the runtime polls every task that can go on
SpecLive ==
  /\ InitOps
  /\ [][NextLive]_vars
  /\ \A p \in Procs : SF_vars(MutexAcquire(p)) /\ WF_vars(Statement(p))

\* ------------------------------------------------------------------------
\* SpecId: the two id generators applied to the base numbers
\* ------------------------------------------------------------------------
\* a base number and what a generator made of it; nreq is the base number
IdCall(op, n, id) == [op |-> op, n |-> n, id |-> id]

InitId ==
  /\ nreq \in 0..(MaxBase - 1)
  /\ out = IdCall("", nreq, 0)
  /\ upl = <<>>
  /\ kids = <<>>
  /\ upls = <<>>
  /\ archive = <<>>
  /\ req = <<>>
  /\ ret = <<>>

NewId ==
  /\ out.op = ""
  /\ out' = IdCall("UplId::new", nreq, UplId_new(nreq))
  /\ UNCHANGED <<upl, kids, svcVars>>

MakeId ==
  /\ out.op = ""
  /\ out' = IdCall("make_id", nreq, make_id(nreq))
  /\ UNCHANGED <<upl, kids, svcVars>>

NextId == NewId \/ MakeId

SpecId == InitId /\ [][NextId]_vars

\* ------------------------------------------------------------------------
\* Properties of the Upl state machine (SpecUpl)
\* ------------------------------------------------------------------------
\* C1: lock(l, by) succeeds only if the current lock is None; on a UPL that
\* already holds a lock it returns an error and leaves the lock as it was.
C1_LockOnlyWhenUnlocked ==
  [][(out'.op = "lock" /\ upl.lock # Lock_None)
       => (~out'.ok /\ upl'.lock = upl.lock)]_vars

\* C2: unlock(l, by) succeeds exactly when the current lock equals l and then
\* sets the lock to None; otherwise it returns an error and leaves lock and
\* history unchanged.
C2_UnlockExactlyOwnLock ==
  [][out'.op = "unlock"
       => IF upl.lock = out'.lock
            THEN out'.ok /\ upl'.lock = Lock_None
            ELSE ~out'.ok /\ upl'.lock = upl.lock /\ upl'.history = upl.history]_vars

\* a UPL locked to one cart has just refused to be unlocked by another cart
C2_Witness ==
  /\ out.op = "unlock" /\ ~out.ok
  /\ upl.lock.tag = "Cart" /\ out.lock.tag = "Cart"

\* C3: move_upl(to, by) succeeds exactly for the pairs of the move table
\* (None: Stock, Delivery, Cart; Cart(c): Cart(c); Delivery(d): Delivery(d);
\* Inventory: Discard); for every other pair it returns an error and leaves
\* location, lock and history unchanged.
C3_MoveFollowsTable ==
  [][out'.op = "move_upl"
       => LET l == upl.lock
              to == out'.to
              allowed ==
                CASE l.tag = "None" -> to.tag \in {"Stock", "Delivery", "Cart"}
                  [] l.tag = "Cart" -> to = Location_Cart(l.cart)
                  [] l.tag = "Delivery" -> to = Location_Delivery(l.n)
                  [] l.tag = "Inventory" -> to.tag = "Discard"
          IN /\ out'.ok <=> allowed
             /\ ~out'.ok => /\ upl'.location = upl.location
                            /\ upl'.lock = upl.lock
                            /\ upl'.history = upl.history]_vars

\* the illegal move of a cart-locked UPL at Stock(1) to Stock(2) was refused
C3_Witness ==
  /\ out.op = "move_upl" /\ ~out.ok /\ out.to = Location_Stock(2)
  /\ upl.lock = Lock_Cart("c1") /\ upl.location = Location_Stock(1)

\* C4: after every successful move_upl(to, by) the location is `to` and the
\* lock is None, whatever lock was held before.
C4_MoveClearsLock ==
  [][(out'.op = "move_upl" /\ out'.ok)
       => (upl'.location = out'.to /\ upl'.lock = Lock_None)]_vars

\* a move has succeeded on a UPL that held a lock: the history ends
\* Locked{to: a lock}, Moved, Unlocked
C4_Witness ==
  /\ out.op = "move_upl" /\ out.ok
  /\ LET h == upl.history
         n == Len(h)
     IN /\ n >= 4
        /\ h[n - 2].event.event = "Locked"
        /\ h[n - 2].event.to # Lock_None
        /\ h[n - 1].event.event = "Moved"
        /\ h[n].event.event = "Unlocked"

\* ------------------------------------------------------------------------
\* Properties of the service (Spec)
\* ------------------------------------------------------------------------
\* C5: in every reachable state, between the steps of a running CloseCart
\* too, no id is in both the active and the archive collection.
C5_Disjoint == IdsOf(upls) \cap IdsOf(archive) = {}

\* C6: a CreateNew that gets as far as the insert fails with AlreadyExists,
\* inserting nothing, when its id is already in the active or the archive
\* collection.
C6_InsertRejectsKnownId ==
  [][(/\ ret'.op = "create_new"
      /\ ret'.res # "BadRequest"
      /\ ret'.upl_id \in IdsOf(upls) \cup IdsOf(archive))
       => (ret'.res = "AlreadyExists" /\ upls' = upls)]_vars

\* C7: when CloseCart(c) returns, no UPL of the active collection is locked
\* to cart c.
C7_NoCartLockAtReturn ==
  [][\A p \in Procs :
       (req[p].pc # "idle" /\ req'[p].pc = "idle")
         => \A i \in DOMAIN upls' : upls'[i].lock # Lock_Cart(req[p].cart_id)]_vars

\* C8: every UPL locked to cart c, or at Location::Cart(c), when CloseCart(c)
\* started is, when it returns, in the archive and not in the active
\* collection: GetById answers NotFound and GetByIdArchive an archived view.
C8_ArchivedAtReturn ==
  [][\A p \in Procs :
       (req[p].pc # "idle" /\ req'[p].pc = "idle")
         => \A id \in req[p].at_call :
              /\ id \in IdsOf(archive')
              /\ id \notin IdsOf(upls')
              /\ get_by_id(upls', id).res = "NotFound"
              /\ get_by_id_archive(archive', id).res = "Ok"
              /\ get_by_id_archive(archive', id).obj[1].is_archived]_vars

\* C9: the copy CloseCart(c) stores in the archive has location Cart(c) and
\* lock None.
C9_ArchiveCopyUnlockedAtCart ==
  [][\A p \in Procs :
       (/\ req[p].pc = "archive"
        /\ req'[p].upls_to_archive # req[p].upls_to_archive
        /\ Len(archive') = Len(archive) + 1)
         => LET a == archive'[Len(archive')]
            IN /\ a.location = Location_Cart(req[p].cart_id)
               /\ a.lock = Lock_None]_vars

\* C10: the statements of CloseCart are one atomic step for the rest of the
\* service: while a CloseCart is between two of its statements, no other
\* request changes the active or the archive collection.
C10_CloseCartAtomic ==
  [][\A p \in Procs :
       (req[p].pc \in {"collect", "archive", "remove"} /\ req'[p] = req[p])
         => (upls' = upls /\ archive' = archive)]_vars

\* ------------------------------------------------------------------------
\* Properties of the requests that change kinds and prices (SpecOps)
\* ------------------------------------------------------------------------
\* C11: a request that returns an error leaves both collections, and every
\* stored UPL with its history, as they were before the request: a request
\* of one statement in the step that answers, a request of several
\* statements that ran with no other request beside it between its first
\* statement and its answer.
C11_ErrorsChangeNothing ==
  [][ret'.res \notin {"", "Ok"}
       => /\ (req' = req) => (upls' = upls /\ archive' = archive)
          /\ \A p \in Procs :
               (/\ req[p].pc # "idle" /\ req'[p].pc = "idle"
                /\ req[p].solo /\ nreq' = req[p].n0)
                 => <<upls', archive'>> = req[p].before]_vars

\* C12: a Split request whose split succeeded holds a child whose id is
\* new_id, different from the parent's id, of kind Sku when piece = 1 and
\* BulkSku{sku, piece} otherwise; when the request, run with no other request
\* beside it, returns, the active collection holds the parent under its id
\* and the child under new_id.
C12_SplitMakesChild ==
  [][\A p \in Procs :
       /\ (req[p].pc = "idle" /\ req'[p].pc = "split_insert")
            => LET c == req'[p].new_upl[1]
                   sku == get_sku(upls[IndexOf(upls, req'[p].upl)])
               IN /\ c.id = req'[p].new_upl_id
                  /\ c.id # req'[p].upl
                  /\ c.kind = IF req'[p].n = 1 THEN Kind_Sku(sku)
                              ELSE Kind_BulkSku(sku, req'[p].n)
       /\ (/\ req[p].pc \in {"split_insert", "split_find"} /\ req'[p].pc = "idle"
           /\ req[p].solo /\ nreq' = req[p].n0)
            => {req[p].upl, req[p].new_upl_id} \subseteq IdsOf(upls')]_vars

\* C15: every DerivedProduct of the active collection has its parent in the
\* active collection, of kind OpenedSku, with the child's id among the
\* parent's successors.
C15_DerivedHasParent ==
  \A i \in DOMAIN upls :
    upls[i].kind.tag = "DerivedProduct"
      => \E j \in DOMAIN upls :
           /\ upls[j].id = upls[i].kind.derived_from
           /\ upls[j].kind.tag = "OpenedSku"
           /\ \E k \in DOMAIN upls[j].kind.successors :
                upls[j].kind.successors[k] = upls[i].id

C14_KindAmounts ==
  \A u \in {upl} \cup {kids[i] : i \in DOMAIN kids} :
    /\ u.kind.tag = "BulkSku" => u.kind.upl_pieces >= 2
    /\ u.kind.tag = "OpenedSku" => u.kind.amount >= 1
    /\ u.kind.tag = "DerivedProduct" => u.kind.amount >= 1

\* C16: divide(U, n) on a U as open() leaves it (remaining =
\* sku_divisible_amount, no successors) followed by merge(U, C) of the child C
\* leaves U an OpenedSku with remaining = sku_divisible_amount and C's id in
\* none of its successors.
C16_DivideMergeRoundTrip ==
  [][(/\ out.op = "divide" /\ out.ok
      /\ upl.kind.successors = <<out.new_upl_id>>
      /\ upl.kind.amount + out.n = upl.sku_divisible_amount
      /\ out'.op = "merge" /\ out'.ok /\ out'.new_upl_id = out.new_upl_id)
       => /\ upl'.kind.tag = "OpenedSku"
          /\ upl'.kind.amount = upl'.sku_divisible_amount
          /\ \A k \in DOMAIN upl'.kind.successors :
               upl'.kind.successors[k] # out.new_upl_id]_vars

\* C17: after creation and after every successful set_price, split,
\* split_bulk, open, close, divide and merge, the object and the objects the
\* call returned have price_gross = price_net * vat rounded to the nearest
\* integer (a half rounds up) and margin_net = price_net -
\* procurement_net_price.
C17_PriceInvariant ==
  (out.ok /\ out.op \in {"new", "set_price", "split", "split_bulk", "open",
                          "close", "divide", "merge"})
    => \A u \in {upl} \cup {out.new[i] : i \in DOMAIN out.new} :
         LET pct == CASE u.vat = "_5" -> 105
                      [] u.vat = "_18" -> 118
                      [] u.vat = "_27" -> 127
                      [] OTHER -> 100
         IN /\ u.price_gross = (u.price_net * pct + 50) \div 100
            /\ u.margin_net = u.price_net - u.procurement_net_price

\* C18: every Sku and BulkSku has, from its creation on, price_net =
\* sku_price_net and procurement_net_price = procurement_net_price_sku.
C18_SkuPrices ==
  \A u \in {upl} \cup {kids[i] : i \in DOMAIN kids} :
    u.kind.tag \in {"Sku", "BulkSku"}
      => /\ u.price_net = u.sku_price_net
         /\ u.procurement_net_price = u.procurement_net_price_sku

\* C19: every OpenedSku with remaining r, and every DerivedProduct with amount
\* r, of divisible amount d has price_net within 1 of r * sku_price_net / d
\* and procurement_net_price within 1 of r * procurement_net_price_sku / d.
C19_Amortization ==
  \A u \in {upl} \cup {kids[i] : i \in DOMAIN kids} :
    u.kind.tag \in {"OpenedSku", "DerivedProduct"}
      => LET r == u.kind.amount
             d == u.sku_divisible_amount
             Near(x, whole) == /\ x * d - r * whole <= d
                               /\ r * whole - x * d <= d
         IN /\ Near(u.price_net, u.sku_price_net)
            /\ Near(u.procurement_net_price, u.procurement_net_price_sku)

\* C20: open() succeeds exactly when the kind is Sku, sku_divisible holds,
\* sku_divisible_amount > 1 and the lock is None, and then only replaces the
\* kind by OpenedSku{sku, remaining = sku_divisible_amount, successors = []};
\* in every other state it returns an error and changes nothing.
C20_OpenExactlyWhenLegal ==
  [][out'.op = "open"
       => IF /\ upl.kind.tag = "Sku" /\ upl.sku_divisible
             /\ upl.sku_divisible_amount > 1 /\ upl.lock = Lock_None
            THEN /\ out'.ok
                 /\ upl' = [upl EXCEPT !.kind =
                              Kind_OpenedSku(upl.kind.sku, upl.sku_divisible_amount, <<>>)]
            ELSE ~out'.ok /\ upl' = upl]_vars

\* open() has just refused a divisible Sku because it is locked
C20_Witness ==
  /\ out.op = "open" /\ ~out.ok
  /\ upl.kind.tag = "Sku" /\ upl.sku_divisible /\ upl.sku_divisible_amount > 1
  /\ upl.lock = Lock_Cart("c1")

\* C21: close() succeeds exactly when the kind is OpenedSku with remaining =
\* sku_divisible_amount and the lock is None, and then only replaces the kind
\* by Sku{sku}; in every other state it returns an error and changes nothing.
C21_CloseExactlyWhenLegal ==
  [][out'.op = "close"
       => IF /\ upl.kind.tag = "OpenedSku"
             /\ upl.kind.amount = upl.sku_divisible_amount
             /\ upl.lock = Lock_None
            THEN /\ out'.ok
                 /\ upl' = [upl EXCEPT !.kind = Kind_Sku(upl.kind.sku)]
            ELSE ~out'.ok /\ upl' = upl]_vars

\* close() has just refused an unlocked OpenedSku something was taken from
C21_Witness ==
  /\ out.op = "close" /\ ~out.ok
  /\ upl.kind.tag = "OpenedSku" /\ upl.kind.amount < upl.sku_divisible_amount
  /\ upl.lock = Lock_None

C23_MergeWhenLegal ==
  [][out'.op = "merge"
       => LET child == out'.arg[1]
          IN IF out'.ok
               THEN /\ upl.kind.tag = "OpenedSku"
                    /\ child.kind.tag = "DerivedProduct"
                    /\ child.kind.derived_from = upl.id
                    /\ ~is_depreciated(upl) /\ ~is_depreciated(child)
                    /\ upl.lock = Lock_None /\ child.lock = Lock_None
                    /\ upl'.kind.amount = upl.kind.amount + child.kind.amount
               ELSE upl' = upl]_vars

\* C25: every successful lock, unlock, set_price, set_depreciation,
\* remove_deprecation, split, split_bulk, open, close, divide and merge
\* makes the history of the object it changes longer.
C25_HistoryGrows ==
  [][(out'.ok /\ out'.op \in {"lock", "unlock", "set_price", "set_depreciation",
                               "remove_deprecation", "split", "split_bulk",
                               "open", "close", "divide", "merge"})
       => Len(upl'.history) > Len(upl.history)]_vars

\* ------------------------------------------------------------------------
\* Properties of the requests, C24 and C26 (SpecOps)
\* ------------------------------------------------------------------------
\* C24: Split, Divide and MergeBack edit the collection in one step with the
\* change of the parent: from a state where a Split or Divide has changed
\* the parent and its child is not in the active collection, or where a
\* MergeBack has merged the child into the parent and the child is still in
\* the active collection, the only step taken is the next statement of that
\* same request, so that no other request runs on such a state.
C24_EditsAtomic ==
  [][\A p \in Procs :
       (\/ /\ req[p].pc \in {"split_insert", "divide_insert"}
           /\ req[p].new_upl_id \notin IdsOf(upls)
        \/ /\ req[p].pc = "merge_remove"
           /\ req[p].upl \in IdsOf(upls))
         => req'[p] # req[p]]_vars

\* C26: SetSkuPrice{sku, net, vat, gross} answers BadRequest and changes no
\* UPL when net * vat rounded to the nearest integer is not gross; when it
\* is, the request succeeds and every active UPL of that sku has
\* sku_price_net = net, vat = vat and the prices and margin recomputed.
C26_SetSkuPriceChecksGross ==
  [][\A r \in PricePayloads :
       SetSkuPrice(r)
         => LET vat == VAT_from_str(r.vat)
                pct == CASE vat = "_5" -> 105
                         [] vat = "_18" -> 118
                         [] vat = "_27" -> 127
                         [] OTHER -> 100
            IN IF (r.net_price * pct + 50) \div 100 # r.gross_price
                 THEN ret'.res = "BadRequest" /\ upls' = upls
                 ELSE /\ ret'.res = "Ok"
                      /\ \A i \in DOMAIN upls :
                           get_sku(upls[i]) = r.sku
                             => /\ upls'[i].sku_price_net = r.net_price
                                /\ upls'[i].vat = vat
                                /\ upls'[i] = recalculate_prices(upls'[i])]_vars

\* ------------------------------------------------------------------------
\* Properties of the id generators (SpecId)
\* ------------------------------------------------------------------------
\* C27: the id generated from every base number n in [0, MaxBase) passes
\* validation: is_valid of the id module for UplId::new(n), is_valid of the
\* Luhn tool for make_id(n).
C27_GeneratedIdsAreValid ==
  /\ out.op = "UplId::new" => is_valid(out.id)
  /\ out.op = "make_id" => luhn_is_valid(out.id)

\* UplId::new has made the id of the largest base number, a valid one
C27_Witness ==
  /\ out.op = "UplId::new" /\ out.n = MaxBase - 1
  /\ is_valid(out.id)

\* C28: the ids generated from the first MaxUnique base numbers are pairwise
\* different: once a generator has made the id of the last of them, the
\* MaxUnique base numbers 0 .. MaxUnique - 1 have given MaxUnique ids.
C28_IdsDistinct ==
  /\ (out.op = "UplId::new" /\ out.n = MaxUnique - 1)
       => Cardinality({UplId_new(m) : m \in 0..(MaxUnique - 1)}) = MaxUnique
  /\ (out.op = "make_id" /\ out.n = MaxUnique - 1)
       => Cardinality({make_id(m) : m \in 0..(MaxUnique - 1)}) = MaxUnique

\* the last of the first MaxUnique ids has been made
C28_Witness ==
  /\ out.op = "make_id" /\ out.n = MaxUnique - 1
  /\ out.id = make_id(MaxUnique - 1)

\* ------------------------------------------------------------------------
\* Properties of CreateNewBulk (SpecBulk)
\* ------------------------------------------------------------------------
\* C29: CreateNewBulk returns after the last item of its stream, and the
\* list it returns is the list of the ids its turns have inserted into the
\* active collection, in the order of the stream.  An item that fails stops
\* nothing: when the request ran with no other request beside it, the ids
\* returned are, in stream order and once each, the ids of the items that
\* create_new accepts on their own and that were not in the collection when
\* the request came, and the collection holds what it held then and these.
C29_BulkSkipsFailures ==
  [][\A p \in Procs :
       (req[p].pc = "bulk" /\ req'[p].pc = "idle")
         => LET ids == ret'.obj
                all == req[p].all
                Good(k) == /\ all[k].status = "Ok"
                           /\ create_new(<<>>, all[k].upl).res = "Ok"
                           /\ all[k].upl.upl_id \notin IdsOf(req[p].before)
                           /\ \A j \in 1..(k - 1) :
                                all[j].status = "Ok" => all[j].upl # all[k].upl
                At(id) == CHOOSE k \in DOMAIN all : Good(k) /\ all[k].upl.upl_id = id
            IN /\ ret'.res = "Ok"
               /\ ids = req[p].inserted
               /\ (req[p].solo /\ nreq' = req[p].n0)
                    => /\ {ids[i] : i \in DOMAIN ids}
                            = {all[k].upl.upl_id : k \in {j \in DOMAIN all : Good(j)}}
                       /\ \A i, j \in DOMAIN ids : i < j => At(ids[i]) < At(ids[j])
                       /\ IdsOf(upls') = IdsOf(req[p].before) \cup {ids[i] : i \in DOMAIN ids}
                       /\ SubSeq(upls', 1, Len(req[p].before)) = req[p].before]_vars

\* a request has returned the one id of a stream whose first item failed
C29_Witness ==
  /\ ret.op = "create_new_bulk"
  /\ ret.obj = <<228>>
  /\ 228 \in IdsOf(upls)
  /\ \A p \in Procs : req[p].pc = "idle"

C32_SplitOnlyWhenLegal ==
  [][out'.op = "split"
       => IF out'.ok
            THEN /\ upl.kind.tag = "BulkSku"
                 /\ upl.kind.upl_pieces > out'.n
                 /\ out'.n >= 1
                 /\ upl.lock = Lock_None
            ELSE /\ upl'.kind = upl.kind
                 /\ upl'.history = upl.history]_vars

\* a split with a valid id was refused on a locked bulk that had been
\* split once
C32_Witness ==
  /\ out.op = "split" /\ ~out.ok /\ out.new_upl_id = 228 /\ out.n = 1
  /\ upl.kind.tag = "BulkSku" /\ upl.kind.upl_pieces = 2
  /\ upl.lock = Lock_Cart("c1")

\* C33: split_bulk(new_ids, by) on an unlocked BulkSku with more pieces
\* than ids, all ids valid, returns one child of kind Sku per id and takes
\* that many pieces from the parent; in every other case it fails and the
\* parent is unchanged.
C33_SplitBulkAllOrNothing ==
  [][out'.op = "split_bulk"
       => LET new_ids == out'.arg
          IN IF /\ upl.lock = Lock_None
                /\ upl.kind.tag = "BulkSku"
                /\ upl.kind.upl_pieces > Len(new_ids)
                /\ \A i \in DOMAIN new_ids : is_valid(new_ids[i])
               THEN /\ out'.ok
                    /\ Len(out'.new) = Len(new_ids)
                    /\ \A i \in DOMAIN out'.new :
                         out'.new[i].kind = Kind_Sku(upl.kind.sku)
                    /\ upl'.kind.upl_pieces = upl.kind.upl_pieces - Len(new_ids)
               ELSE /\ ~out'.ok
                    /\ out'.new = <<>>
                    /\ upl' = upl]_vars

\* split_bulk has taken two of the three pieces
C33_Witness ==
  /\ out.op = "split_bulk" /\ out.ok /\ out.arg = <<228, 317587>>
  /\ Len(out.new) = 2
  /\ upl.kind.tag = "BulkSku" /\ upl.kind.upl_pieces = 1

\* C37: the history is an append-only log: whatever the operation, the
\* history before it is a prefix of the history after it, and an operation
\* that fails appends nothing.  Holds for the object and for every object
\* it has handed out that is still held.
C37_HistoryAppendOnly ==
  [][/\ Len(upl'.history) >= Len(upl.history)
     /\ SubSeq(upl'.history, 1, Len(upl.history)) = upl.history
     /\ ~out'.ok => upl'.history = upl.history
     /\ out'.op = "kid_set_depreciation"
          => \A i \in DOMAIN kids :
               /\ SubSeq(kids'[i].history, 1, Len(kids[i].history)) = kids[i].history
               /\ ~out'.ok => kids'[i].history = kids[i].history]_vars

\* a failed operation on an object whose history holds three entries
C37_Witness ==
  /\ ~out.ok /\ out.op = "remove_deprecation"
  /\ Len(upl.history) = 3
  /\ upl.history[3].event.event = "Unlocked"

\* C34: set_depreciation_price(Some(p)) on a depreciated object stores the
\* special net price p and the special margin p - procurement_net_price (a
\* u32, so the difference is not negative), leaves price_net, price_gross
\* and margin_net as they were, and the retail view then reports p and p
\* times the VAT rounded to the nearest integer; on an object that is not
\* depreciated it returns an error and changes nothing.
C34_DepreciationPrice ==
  [][out'.op = "set_depreciation_price"
       => IF is_depreciated(upl)
            THEN LET p == out'.n
                     pct == CASE upl.vat = "_5" -> 105
                              [] upl.vat = "_18" -> 118
                              [] upl.vat = "_27" -> 127
                              [] OTHER -> 100
                 IN /\ out'.ok
                    /\ get_upl_special_price_net(upl') = <<p>>
                    /\ get_upl_special_price_margin(upl') = <<p - upl.procurement_net_price>>
                    /\ p >= upl.procurement_net_price
                    /\ upl'.price_net = upl.price_net
                    /\ upl'.price_gross = upl.price_gross
                    /\ upl'.margin_net = upl.margin_net
                    /\ UplObj_from(upl').price_net = p
                    /\ UplObj_from(upl').price_gross = (p * pct + 50) \div 100
            ELSE /\ ~out'.ok
                 /\ upl' = upl]_vars

\* C40: the u32 subtractions of the margins never underflow: in every
\* state price_net >= procurement_net_price, for the object and the objects
\* it has handed out, and a special net price that has just been set is at
\* least procurement_net_price.
C40_MarginsNeverUnderflow ==
  /\ \A u \in {upl} \cup {kids[i] : i \in DOMAIN kids} :
       u.price_net >= u.procurement_net_price
  /\ (out.op = "set_depreciation_price" /\ out.ok)
       => out.n >= upl.procurement_net_price

\* ------------------------------------------------------------------------
\* Properties of the requests of several statements, continued (SpecOps)
\* ------------------------------------------------------------------------
\* C35: a Split or Divide request whose transition and insert have both
\* succeeded returns the view of the parent, never NotFound.
C35_SplitDivideReturnParent ==
  [][\A p \in Procs :
       (req[p].pc \in {"split_find", "divide_find"} /\ req'[p].pc = "idle")
         => /\ ret'.res = "Ok"
            /\ ret'.obj # <<>>
            /\ ret'.obj[1].id = req[p].upl]_vars

\* C36: MergeBack never removes from the active collection a child that is
\* locked at the moment the merge is applied, and a merge applied to a
\* locked child is rejected, the child staying in the active collection.
C36_MergeBackSeesLock ==
  [][\A p \in Procs :
       /\ (req[p].pc = "merge_merge" /\ req'[p].pc # "merge_merge"
             /\ \E i \in DOMAIN upls : upls[i].id = req[p].upl /\ has_lock(upls[i]))
            => /\ req'[p].pc = "idle"
               /\ ret'.res = "BadRequest"
               /\ upls' = upls
       /\ (req[p].pc = "merge_remove" /\ req'[p].pc = "idle")
            => \A i \in DOMAIN upls :
                 (upls[i].id = req[p].upl /\ has_lock(upls[i]))
                   => req[p].upl \in IdsOf(upls')]_vars

\* C38: the remaining amount of an opened UPL plus the amounts of the
\* active DerivedProduct UPLs derived from it never exceeds
\* sku_divisible_amount.
C38_AmountConserved ==
  \A i \in DOMAIN upls :
    upls[i].kind.tag = "OpenedSku"
      => upls[i].kind.amount
           + Cardinality({<<j, k>> \in (DOMAIN upls) \X (1..upls[i].sku_divisible_amount) :
                            /\ upls[j].kind.tag = "DerivedProduct"
                            /\ upls[j].kind.derived_from = upls[i].id
                            /\ k <= upls[j].kind.amount})
           <= upls[i].sku_divisible_amount

\* ------------------------------------------------------------------------
\* Properties of CloseCart, continued (Spec)
\* ------------------------------------------------------------------------
\* C39: CloseCart never destroys a UPL: a UPL that a step removes from the
\* active collection is, after the step, in the archive with exactly the
\* state it had in the active collection when it was removed.
C39_CloseCartKeepsUpl ==
  [][\A i \in DOMAIN upls :
       upls[i].id \notin IdsOf(upls')
         => \E j \in DOMAIN archive' : archive'[j] = upls[i]]_vars

====
